---- MODULE Spec2Model ----
(***************************************************************************)
(* Read-through cache, write-back aggregation and existence filter of the  *)
(* blog backend (Go-Clean-Architecture-Blog).  The module holds several    *)
(* specifications over one set of variables; each specification drives the *)
(* variables of one subsystem and leaves the others unchanged:             *)
(*   SpecViews  the view-count buffer (IncrViews / FetchAndResetViews)     *)
(*   SpecRead   GetByID over the logical-expiry cache, the single-flight   *)
(*              group and the background rebuild                           *)
(*   SpecLikes  service AddLikeRecord / RemoveLikeRecord, the like-sync    *)
(*              worker and ApplyLikeChanges                                *)
(*   SpecBloom  the existence filter: seeding, Store, mustExists           *)
(*   SpecWorker, SpecKeys, SpecDup, SpecMiss, SpecCount, SpecSeen          *)
(*              the same subsystems from other initial states or with      *)
(*              concurrent callers                                         *)
(*   SpecHome, SpecRank, SpecDaily, SpecFill  the listings and rankings    *)
(*   SpecGate, SpecStore  the service calls behind the existence filter    *)
(*   SpecSeed   InitBloomFilter goroutine by goroutine (SpecSeedFair with  *)
(*              fair scheduling)                                           *)
(*   SpecPage   cursor pagination of the listing                           *)
(***************************************************************************)
EXTENDS Integers, Sequences, FiniteSets, TLC

VARIABLES
    \* ---- view buffer (redis hash article:views:buffer) ----
    viewsBuffer,      \* hash: field string -> counter, domain = present fields
    viewsProcessing,  \* hash article:views:processing
    incrDone,         \* history: completed IncrViews calls per id
    drainedSum,       \* history: sum of the deltas returned by drains per id
    drainCycles,      \* history: number of drains that returned something
    lastOp,           \* history: the last completed buffer operation
    \* ---- article read path (repository GetByID) ----
    dbArt,            \* durable store: id -> content version, 0 = no such row
    cacheArt,         \* redis article:<id>: the logical-expiry wrapper
    likeCnt,          \* redis article:likes:<id>: the per-article like counter
    genCount,         \* history: cache writes per id (names the entry written)
    rebuildingMap,    \* articleRepository.rebuildingMap
    rebuildGroup,     \* articleRepository.rebuildGroup: key -> executing caller
    pendingInval,     \* goroutines of Update/Delete not yet run (cache delete)
    rd,               \* the GetByID calls
    bg,               \* the rebuildArticleCache goroutine each call may start
    \* ---- likes (service, redis scripts, sync worker, durable store) ----
    likedSet,         \* redis article:user:<uid>:likedArticles
    hotRaw,           \* redis article:hot:daily:raw:<hour>: article -> score
    likeQueue,        \* syncLikesWorker.ch
    batch,            \* the batch of syncLikesWorker.Start
    likeRows,         \* durable table user_likes: set of <<article, user>>
    likesCol,         \* durable column article.likes of the existing articles
    lk,               \* the service call in progress
    hist,             \* history: the service calls that returned, in order
    lastTx,           \* history: the last ApplyLikeChanges call that had changes
    flushed,          \* history: ApplyLikeChanges calls with a non-empty batch
    lost,             \* history: a task was dropped or its transaction failed
    lastFlush,        \* history: the last non-empty batch flushed and its changes
    ctxDone,          \* the context of syncLikesWorker.Start is cancelled
    finalFlushes,     \* history: runs of the ctx.Done() case of Start
    sends,            \* history: the tasks handed to Send, in order
    lkc,              \* concurrent AddLikeRecord calls for one (article, user)
    \* ---- home listing (repository Fetch) ----
    homeCache,        \* redis key of the home listing: "absent", "fresh", "expired"
    homeCalls,        \* the Fetch calls
    homeBg,           \* the rebuildHomeCache goroutine each call may start
    homeFlight,       \* rebuildGroup, key "home": the executing goroutine, 0 = none
    homeSets,         \* goroutines of Fetch not yet run (SetHomeWithLogicalExpire)
    \* ---- history rank (repository GetHistoryRank) ----
    rankRedis,        \* the rank keys that exist in redis
    rankCalls,        \* the GetHistoryRank calls
    rankFlight,       \* rankGroup, key "history": the executing caller, 0 = none
    rankSets,         \* goroutines of buildHistoryRank not yet run: their aids
    rankWritten,      \* history: a cache write of the rank succeeded, its key lives
    \* ---- daily rank (redis GetDailyRank) ----
    hourRaw,          \* redis article:hot:daily:raw:<hour>, per hour: article -> score
    nowHour,          \* the hour of time.Now()
    dailyAgg,         \* redis article:hot:daily:rank: the aggregated sorted set
    dailyCall,        \* the GetDailyRank call
    dailyIncrs,       \* history: number of ZINCRBYs on the hourly buckets
    \* ---- fillRankArticles ----
    fillIn,           \* the rank list given, the articles cached and stored
    fillOut,          \* what fillRankArticles returned
    \* ---- article creation (service Store) ----
    artTitle,         \* durable store: id -> title of the article rows
    stCalls,          \* the Store calls
    \* ---- InitBloomFilter, its goroutines ----
    seedProd,         \* the producer: position, page held at the select, way out
    seedWr,           \* the writers: position and whether BulkAdd failed
    \* ---- the listing, page by page ----
    pgRows,           \* article table: id -> created_at
    pgHome,           \* the home key: state and the list it holds
    pgBg,             \* goroutines started by Fetch and not yet run
    pgWalk,           \* a client following the cursors
    \* ---- existence filter (redis bitmap bloom:article:ids) ----
    bloomBits,        \* the offsets of the bitmap that are 1
    bloomEver,        \* history: every offset an operation has set
    bloomAdded,       \* history: ids whose Add / BulkAdd returned nil
    dbIds,            \* durable store: ids of the article rows
    lastId,           \* durable store: the auto-increment high-water mark
    seedCursor,       \* InitBloomFilter, producer: cursor
    idBatchChan,      \* InitBloomFilter: idBatchChan
    producerDone,     \* InitBloomFilter: the producer has returned (channel closed)
    scanned,          \* history: the ids the FetchIDs calls have returned
    seedErr,          \* InitBloomFilter: a goroutine of the group returned an error
    phase,            \* "seeding", "serving", or "failed" (main returned)
    storing,          \* service.Store between repo.Store and bloomRepo.Add: the id
    gate              \* history: the last mustExists decision

viewVars == <<viewsBuffer, viewsProcessing, incrDone, drainedSum, drainCycles, lastOp>>

readVars == <<dbArt, cacheArt, likeCnt, genCount, rebuildingMap, rebuildGroup,
              pendingInval, rd, bg>>

wkVars == <<ctxDone, finalFlushes, sends>>

homeVars == <<homeCache, homeCalls, homeBg, homeFlight, homeSets>>

rankVars == <<rankRedis, rankCalls, rankFlight, rankSets, rankWritten>>

dayVars == <<hourRaw, nowHour, dailyAgg, dailyCall, dailyIncrs>>

fillVars == <<fillIn, fillOut>>

storeVars == <<artTitle, stCalls>>

seedGoVars == <<seedProd, seedWr>>

pageVars == <<pgRows, pgHome, pgBg, pgWalk>>

auxVars == <<homeVars, rankVars, dayVars, fillVars, storeVars, seedGoVars, pageVars>>

sideVars == <<wkVars, lkc, auxVars>>

likeVars == <<likedSet, hotRaw, likeQueue, batch, likeRows, likesCol, lk, hist,
              lastTx, flushed, lost, lastFlush, sideVars>>

seedVars == <<seedCursor, idBatchChan, producerDone, scanned, seedErr>>

bloomVars == <<bloomBits, bloomEver, bloomAdded, dbIds, lastId, seedVars, phase,
               storing, gate>>

vars == <<viewVars, readVars, likeVars, bloomVars>>

\* everything but auxVars
coreVars == <<viewVars, readVars, bloomVars, likedSet, hotRaw, likeQueue, batch, likeRows,
              likesCol, lk, hist, lastTx, flushed, lost, lastFlush, wkVars, lkc>>

\* what the actions of one of the later subsystems leave alone
homeFrame == <<coreVars, rankVars, dayVars, fillVars, storeVars, seedGoVars, pageVars>>
rankFrame == <<coreVars, homeVars, dayVars, fillVars, storeVars, seedGoVars, pageVars>>
dayFrame == <<coreVars, homeVars, rankVars, fillVars, storeVars, seedGoVars, pageVars>>
fillFrame == <<coreVars, homeVars, rankVars, dayVars, storeVars, seedGoVars, pageVars>>

\* ------------------------------------------------------------------------
\* Bounds of the model
\* ------------------------------------------------------------------------
MaxIncr == 3            \* IncrViews calls per article id

ViewIds == {7, 42}      \* article ids whose views are counted

NReaders == 2           \* GetByID calls
MaxVer == 2             \* content versions of an article (Update calls + 1)

MaxCalls == 3           \* AddLikeRecord / RemoveLikeRecord calls
batchSize == 2          \* the worker's batch size, scaled down from 100
QueueCap == 2           \* the worker's channel capacity, scaled down from 1024
DayHours == 2           \* hourly buckets in the daily window (24 in the code)

NStorers == 2           \* concurrent Store calls
WorkerCount == 2        \* writers of InitBloomFilter, scaled down from 5
ChanCap == 1            \* buffer of idBatchChan, scaled down from WorkerCount*2
PageRows == 3           \* articles in the table that is paged through
MaxStamp == 2           \* distinct created_at values
MaxNum == 2             \* largest page size a request asks for
MaxWalks == 2           \* walks through the listing, one after the other
MaxScores == 2          \* ZINCRBYs of the like scripts on the hourly buckets

MaxFinalFlushes == 2    \* runs of the worker's ctx.Done() case that are followed

NDup == 2               \* concurrent AddLikeRecord calls for one (article, user)

MaxId == 2              \* article ids the durable store ever issues
BloomBitSize == 8       \* bits of the filter (BLOOM_FILTER_SIZE)
BatchSize == 1          \* ids per FetchIDs page, scaled down from 2000

Readers == 1..NReaders
ReadIds == {1}          \* article ids requested by GetByID

\* the elements of a slice
SeqRange(q) == {q[i] : i \in 1..Len(q)}

\* ------------------------------------------------------------------------
\* strconv.FormatInt / strconv.ParseInt over decimal strings.
\* A string is a sequence of ASCII codes.
\* ------------------------------------------------------------------------
RECURSIVE FormatUint(_)
FormatUint(n) ==
    IF n < 10 THEN <<48 + n>> ELSE Append(FormatUint(n \div 10), 48 + (n % 10))

FormatInt(n) == IF n < 0 THEN <<45>> \o FormatUint(0 - n) ELSE FormatUint(n)

IsDigits(s) == Len(s) > 0 /\ \A i \in 1..Len(s) : s[i] \in 48..57

RECURSIVE ParseUint(_)
ParseUint(s) ==
    IF Len(s) = 0 THEN 0
    ELSE 10 * ParseUint(SubSeq(s, 1, Len(s) - 1)) + (s[Len(s)] - 48)

\* ParseInt returns 0 (and an error the caller drops) for a malformed string
ParseInt(s) ==
    IF Len(s) > 1 /\ s[1] = 45 /\ IsDigits(Tail(s)) THEN 0 - ParseUint(Tail(s))
    ELSE IF IsDigits(s) THEN ParseUint(s)
    ELSE 0

\* ------------------------------------------------------------------------
\* Redis hash commands used by the view buffer
\* ------------------------------------------------------------------------
EmptyHash == << >>

HExists(h) == DOMAIN h # {}

HIncrBy(h, f, d) ==
    IF f \in DOMAIN h THEN [h EXCEPT ![f] = @ + d]
    ELSE [g \in DOMAIN h \cup {f} |-> IF g = f THEN d ELSE h[g]]

\* HGETALL: the (field, value) pairs, values as decimal strings
HGetAll(h) == {<<f, FormatInt(h[f])>> : f \in DOMAIN h}

\* the Go loop over the reply: result[ParseInt(field)] = ParseInt(value)
ParseViews(reply) ==
    [id \in {ParseInt(p[1]) : p \in reply} |->
        LET p == CHOOSE q \in reply : ParseInt(q[1]) = id IN ParseInt(p[2])]

\* The Lua script of FetchAndResetViews, run atomically by the server:
\* EXISTS buffer, RENAME buffer processing, HGETALL processing, DEL processing.
\* Gives the reply and the two keys after the script.
DrainKeepsBuffer(buf, proc) ==
    IF ~HExists(buf) THEN [reply |-> {}, buffer |-> buf, processing |-> proc]
    ELSE [reply |-> HGetAll(buf), buffer |-> buf, processing |-> EmptyHash]

FetchAndResetScript(buf, proc) ==
    IF ~HExists(buf) THEN [reply |-> {}, buffer |-> buf, processing |-> proc]
    ELSE LET renamed == buf       \* RENAME overwrites processing
         IN [reply |-> HGetAll(renamed), buffer |-> EmptyHash, processing |-> EmptyHash]

DeltaOf(m, id) == IF id \in DOMAIN m THEN m[id] ELSE 0

\* ------------------------------------------------------------------------
\* The read path at rest: what NewArticleRepository and an empty cache give
\* ------------------------------------------------------------------------
NoEntry == [present |-> FALSE, ver |-> 0, views |-> 0, likes |-> 0,
            expired |-> FALSE, gen |-> 0]

\* GET article:likes:<id> answers redis.Nil
NoCount == [present |-> FALSE, val |-> 0]

NoResult == [status |-> "none", ver |-> 0, views |-> 0, likes |-> 0]

IdleCall == [pc |-> "idle", id |-> 0, saw |-> "none", sawGen |-> 0, sawVer |-> 0,
             art |-> NoResult, dbReads |-> 0, joined |-> 0, overlap |-> {},
             afterEvict |-> FALSE, cancelled |-> FALSE, doRes |-> NoResult,
             res |-> NoResult]

NoRebuild == [pc |-> "none", id |-> 0, trigGen |-> 0, ver |-> 0, execd |-> FALSE,
              gone |-> FALSE, evicted |-> FALSE]

ReadIdle ==
    /\ dbArt = [id \in ReadIds |-> 0]
    /\ cacheArt = [id \in ReadIds |-> NoEntry]
    /\ genCount = [id \in ReadIds |-> 0]
    /\ rebuildingMap = {}
    /\ rebuildGroup = << >>
    /\ pendingInval = [id \in ReadIds |-> 0]
    /\ rd = [r \in Readers |-> IdleCall]
    /\ bg = [r \in Readers |-> NoRebuild]

\* the view buffer before any call
ViewsIdle ==
    /\ viewsBuffer = EmptyHash
    /\ viewsProcessing = EmptyHash
    /\ incrDone = [id \in ViewIds |-> 0]
    /\ drainedSum = [id \in ViewIds |-> 0]
    /\ drainCycles = 0
    /\ lastOp = "none"

NoLikeCall == [pc |-> "idle", aid |-> 0, uid |-> 0, action |-> 0, fetched |-> {},
               quiet |-> FALSE]

NoTx == [status |-> "none", affected |-> {}, rowsBefore |-> {}, likesBefore |-> << >>]

NoFlush == [batch |-> << >>, ToAdd |-> << >>, ToRemove |-> << >>]

\* no Fetch call has been made
HomeIdle ==
    /\ homeCache = "absent"
    /\ homeCalls = << >>
    /\ homeBg = << >>
    /\ homeFlight = 0
    /\ homeSets = 0

\* no GetHistoryRank call has been made
RankIdle ==
    /\ rankRedis = {}
    /\ rankCalls = << >>
    /\ rankFlight = 0
    /\ rankSets = << >>
    /\ rankWritten = FALSE

\* no GetDailyRank call has been made, nothing has been scored
DayIdle ==
    /\ hourRaw = << >>
    /\ nowHour = 0
    /\ dailyAgg = << >>
    /\ dailyCall = << >>
    /\ dailyIncrs = 0

FillIdle ==
    /\ fillIn = << >>
    /\ fillOut = << >>

\* no Store call has been made
StoreIdle ==
    /\ artTitle = << >>
    /\ stCalls = << >>

\* InitBloomFilter is not looked at goroutine by goroutine
SeedGoIdle ==
    /\ seedProd = << >>
    /\ seedWr = << >>

\* nobody pages through the listing
PageIdle ==
    /\ pgRows = << >>
    /\ pgHome = << >>
    /\ pgBg = << >>
    /\ pgWalk = << >>

AuxIdle ==
    /\ HomeIdle
    /\ RankIdle
    /\ DayIdle
    /\ FillIdle
    /\ StoreIdle
    /\ SeedGoIdle
    /\ PageIdle

\* the worker and the callers of Send before anything happened
WorkerIdle ==
    /\ ctxDone = FALSE
    /\ finalFlushes = 0
    /\ sends = << >>
    /\ lkc = << >>

SideIdle ==
    /\ WorkerIdle
    /\ AuxIdle

\* the likes subsystem before any call, nothing cached and nothing stored
LikesIdleCore ==
    /\ likedSet = << >>
    /\ hotRaw = << >>
    /\ likeQueue = << >>
    /\ batch = << >>
    /\ likeRows = {}
    /\ likesCol = << >>
    /\ lk = NoLikeCall
    /\ hist = << >>
    /\ lastTx = NoTx
    /\ flushed = 0
    /\ lost = FALSE
    /\ lastFlush = NoFlush
    /\ WorkerIdle

LikesIdle ==
    /\ LikesIdleCore
    /\ AuxIdle

NoGate == [op |-> "none", id |-> 0, allBits |-> FALSE, failed |-> FALSE,
           verdict |-> "none", proceeded |-> FALSE, inDb |-> FALSE,
           duringStore |-> FALSE]

\* the existence filter of a process that is not running
BloomIdle ==
    /\ bloomBits = {}
    /\ bloomEver = {}
    /\ bloomAdded = {}
    /\ dbIds = {}
    /\ lastId = 0
    /\ seedCursor = 0
    /\ idBatchChan = << >>
    /\ producerDone = FALSE
    /\ scanned = {}
    /\ seedErr = FALSE
    /\ phase = "idle"
    /\ storing = 0
    /\ gate = NoGate

\* everything but auxVars before any call
CoreIdle ==
    /\ ViewsIdle
    /\ ReadIdle
    /\ likeCnt = << >>
    /\ BloomIdle
    /\ LikesIdleCore

\* ------------------------------------------------------------------------
\* SpecViews
\* ------------------------------------------------------------------------
InitViews ==
    /\ ViewsIdle
    /\ ReadIdle
    /\ BloomIdle
    /\ likeCnt = [id \in ReadIds |-> NoCount]
    /\ LikesIdle

\* articleCache.IncrViews: HINCRBY article:views:buffer <id> 1
IncrViews(id) ==
    /\ incrDone[id] < MaxIncr
    /\ viewsBuffer' = HIncrBy(viewsBuffer, FormatInt(id), 1)
    /\ incrDone' = [incrDone EXCEPT ![id] = @ + 1]
    /\ lastOp' = "incr"
    /\ UNCHANGED <<viewsProcessing, drainedSum, drainCycles, readVars, likeVars, bloomVars>>

\* articleCache.FetchAndResetViews: the script, then the reply parsed into a map
FetchAndResetViews ==
    LET r == FetchAndResetScript(viewsBuffer, viewsProcessing)
        result == ParseViews(r.reply)
    IN /\ viewsBuffer' = r.buffer
       /\ viewsProcessing' = r.processing
       /\ drainedSum' = [id \in ViewIds |-> drainedSum[id] + DeltaOf(result, id)]
       /\ drainCycles' = IF DOMAIN result # {} THEN drainCycles + 1 ELSE drainCycles
       /\ lastOp' = "drain"
       /\ UNCHANGED <<incrDone, readVars, likeVars, bloomVars>>

NextViews ==
    \/ \E id \in ViewIds : IncrViews(id)
    \/ FetchAndResetViews

SpecViews == InitViews /\ [][NextViews]_vars

\* C1: when every IncrViews call has completed and a final drain has run, the
\* deltas returned by all the drains add up, per article id, to the number of
\* IncrViews calls: no increment is lost and none is returned twice.
C1_NoLostIncrements ==
    lastOp = "drain" => \A id \in ViewIds : drainedSum[id] = incrDone[id]

\* K = MaxIncr calls for article 7, spread over several drains, all drained
C1_Witness ==
    /\ lastOp = "drain"
    /\ incrDone[7] = MaxIncr
    /\ drainCycles >= 2
    /\ drainedSum[7] = MaxIncr

\* ------------------------------------------------------------------------
\* SpecRead: articleRepository.GetByID, rebuildArticleCache, Update, Delete
\* ------------------------------------------------------------------------

\* string(rune(id)): a code point that is out of range or a surrogate half
\* is encoded as U+FFFD
RuneOf(id) ==
    IF id < 0 \/ id > 1114111 \/ (id >= 55296 /\ id <= 57343) THEN 65533 ELSE id

ArticleKey(id) == <<"article:", RuneOf(id)>>
RebuildKey(id) == <<"rebuild:", RuneOf(id)>>

\* singleflight.Group.Do: a caller joins the call in flight for its key, or
\* registers a call and executes fn; the key is forgotten when fn returns.
SfNeverShares(group, key) == FALSE

SfInFlight(group, key) == key \in DOMAIN group

SfLead(group, key, who) ==
    [k \in DOMAIN group \cup {key} |-> IF k = key THEN who ELSE group[k]]

SfForget(group, key) == [k \in DOMAIN group \ {key} |-> group[k]]

\* wg.Done(): the callers waiting on the call get its result
RdRelease(calls, key, result) ==
    [q \in Readers |->
        IF calls[q].pc = "wait" /\ ArticleKey(calls[q].id) = key
        THEN [calls[q] EXCEPT !.pc = "post", !.doRes = result]
        ELSE calls[q]]

BgRelease(gs, key) ==
    [q \in Readers |->
        IF gs[q].pc = "wait" /\ RebuildKey(gs[q].id) = key
        THEN [gs[q] EXCEPT !.pc = "clear"]
        ELSE gs[q]]

\* cache.NewDataWithLogicalExpire + SET: a fresh wrapper around the article
FreshEntry(art, g) ==
    [present |-> TRUE, ver |-> art.ver, views |-> art.views, likes |-> art.likes,
     expired |-> FALSE, gen |-> g]

Article(v) == [status |-> "ok", ver |-> v, views |-> 0, likes |-> 0]
ErrNotFound == [status |-> "notfound", ver |-> 0, views |-> 0, likes |-> 0]
ErrOther == [status |-> "error", ver |-> 0, views |-> 0, likes |-> 0]

\* db.GetByID then userRepo.GetByID; every error of the first is ErrNotFound
LoadOutcomes == {"ok", "dberr", "usererr"}

\* the load of GetByID runs with the context of the caller that executes
\* it: when that context is cancelled the query fails with its error
MissOutcomes == LoadOutcomes \cup {"cancelled"}

LoadResult(id, out) ==
    IF out = "usererr" /\ dbArt[id] > 0 THEN ErrOther
    ELSE IF out = "ok" /\ dbArt[id] > 0 THEN Article(dbArt[id])
    ELSE ErrNotFound

\* cache.GetLikeCount: the counter, 0 on a redis error, ErrCacheMiss if absent
GetLikeCount(id, ok, dflt) ==
    IF ~ok THEN 0
    ELSE IF ~likeCnt[id].present THEN dflt
    ELSE IF likeCnt[id].val > 0 THEN likeCnt[id].val ELSE 0

\* cache.IncrViews as GetByID uses it: the new buffer and the delta returned
\* (0 when the call fails, the error is dropped)
ViewsAfterIncr(id, ok) == IF ok THEN HIncrBy(viewsBuffer, FormatInt(id), 1) ELSE viewsBuffer
ViewsDelta(id, ok) == IF ok THEN ViewsAfterIncr(id, ok)[FormatInt(id)] ELSE 0

InProgress(c) == c.pc \notin {"idle", "done"}

InitRead ==
    /\ ViewsIdle
    /\ LikesIdle
    /\ BloomIdle
    /\ dbArt = [id \in ReadIds |-> 1]
    /\ cacheArt \in [ReadIds -> {NoEntry, FreshEntry(Article(1), 1),
                                 [FreshEntry(Article(1), 1) EXCEPT !.expired = TRUE]}]
    /\ likeCnt = [id \in ReadIds |-> NoCount]
    /\ genCount = [id \in ReadIds |-> 1]
    /\ rebuildingMap = {}
    /\ rebuildGroup = << >>
    /\ pendingInval = [id \in ReadIds |-> 0]
    /\ rd = [r \in Readers |-> IdleCall]
    /\ bg = [r \in Readers |-> NoRebuild]

\* GetByID, step 1: cache.GetArticleWithLogicalExpire; on a hit that is
\* logically expired, go rebuildArticleCache
ExpiredAsMiss(e, ok) == ok /\ e.present /\ ~e.expired

CacheHit(e, ok) == ok /\ e.present

ReadCacheBody(r, id) ==
    /\ rd[r].pc = "idle"
    /\ \E ok \in BOOLEAN :
        LET e == cacheArt[id]
            ov == {q \in Readers \ {r} : InProgress(rd[q])}
            me == [rd[r] EXCEPT !.id = id, !.overlap = ov, !.sawGen = e.gen,
                      !.sawVer = e.ver,
                      !.afterEvict = \E q \in Readers :
                                        /\ bg[q].pc = "done" /\ bg[q].id = id
                                        /\ bg[q].gone /\ bg[q].evicted,
                      !.saw = IF ~e.present THEN "absent"
                              ELSE IF ~ok THEN "error"
                              ELSE IF e.expired THEN "expired" ELSE "fresh"]
        IN IF CacheHit(e, ok)
           THEN /\ rd' = [rd EXCEPT ![r] = [me EXCEPT !.pc = "hit",
                              !.art = [status |-> "ok", ver |-> e.ver,
                                       views |-> e.views, likes |-> e.likes]]]
                /\ bg' = IF e.expired
                         THEN [bg EXCEPT ![r] = [NoRebuild EXCEPT !.pc = "spawned",
                                  !.id = id, !.trigGen = e.gen]]
                         ELSE bg
           ELSE /\ rd' = [rd EXCEPT ![r] = [me EXCEPT !.pc = "miss"]]
                /\ bg' = bg
    /\ UNCHANGED <<likeVars, viewVars, dbArt, cacheArt, likeCnt, genCount, rebuildingMap,
                   rebuildGroup, pendingInval>>

ReadCache(r, id) == ReadCacheBody(r, id) /\ UNCHANGED bloomVars

\* GetByID, cache hit: IncrViews, GetLikeCount, return the cached article
HitFinish(r) ==
    /\ rd[r].pc = "hit"
    /\ \E incrOk \in BOOLEAN, likeOk \in BOOLEAN :
        LET c == rd[r] IN
        /\ viewsBuffer' = ViewsAfterIncr(c.id, incrOk)
        /\ rd' = [rd EXCEPT ![r] = [@ EXCEPT !.pc = "done",
                     !.res = [status |-> "ok", ver |-> c.art.ver,
                              views |-> c.art.views + ViewsDelta(c.id, incrOk),
                              likes |-> GetLikeCount(c.id, likeOk, c.art.likes)]]]
    /\ UNCHANGED <<bloomVars, likeVars, viewsProcessing, incrDone, drainedSum, drainCycles, lastOp,
                   dbArt, cacheArt, likeCnt, genCount, rebuildingMap,
                   rebuildGroup, pendingInval, bg>>

\* GetByID, cache miss: rebuildGroup.Do("article:"+string(rune(id)), fn)
EnterDo(r) ==
    /\ rd[r].pc = "miss"
    /\ LET key == ArticleKey(rd[r].id) IN
       IF SfInFlight(rebuildGroup, key)
       THEN /\ rd' = [rd EXCEPT ![r] = [@ EXCEPT !.pc = "wait",
                          !.joined = rebuildGroup[key][2]]]
            /\ UNCHANGED rebuildGroup
       ELSE /\ rd' = [rd EXCEPT ![r] = [@ EXCEPT !.pc = "load"]]
            /\ rebuildGroup' = SfLead(rebuildGroup, key, <<"rd", r>>)
    /\ UNCHANGED <<bloomVars, likeVars, viewVars, dbArt, cacheArt, likeCnt, genCount, rebuildingMap,
                   pendingInval, bg>>

\* fn of GetByID: db.GetByID, userRepo.GetByID; an error ends the call
MissLoad(r) ==
    /\ rd[r].pc = "load"
    /\ \E out \in MissOutcomes :
        LET c == rd[r]
            key == ArticleKey(c.id)
            got == LoadResult(c.id, out)
            me == [c EXCEPT !.dbReads = @ + 1, !.cancelled = out = "cancelled"]
        IN IF got.status = "ok"
           THEN /\ rd' = [rd EXCEPT ![r] = [me EXCEPT !.pc = "populate", !.art = got]]
                /\ UNCHANGED rebuildGroup
           ELSE /\ rd' = RdRelease([rd EXCEPT ![r] = [me EXCEPT !.pc = "post",
                                        !.doRes = got]], key, got)
                /\ rebuildGroup' = SfForget(rebuildGroup, key)
    /\ UNCHANGED <<bloomVars, likeVars, viewVars, dbArt, cacheArt, likeCnt, genCount, rebuildingMap,
                   pendingInval, bg>>

\* fn of GetByID: cache.SetArticleWithLogicalExpire, its error dropped
MissPopulate(r) ==
    /\ rd[r].pc = "populate"
    /\ \E ok \in BOOLEAN :
        LET c == rd[r] IN
        /\ cacheArt' = IF ok THEN [cacheArt EXCEPT ![c.id] =
                                      FreshEntry(c.art, genCount[c.id] + 1)]
                       ELSE cacheArt
        /\ genCount' = IF ok THEN [genCount EXCEPT ![c.id] = @ + 1] ELSE genCount
    /\ rd' = [rd EXCEPT ![r] = [@ EXCEPT !.pc = "setlike"]]
    /\ UNCHANGED <<bloomVars, likeVars, viewVars, dbArt, likeCnt, rebuildingMap, rebuildGroup,
                   pendingInval, bg>>

\* fn of GetByID: cache.SetLikeCount, its error dropped; fn returns the
\* article, Do forgets the key and hands the result to the callers waiting
MissSetLike(r) ==
    /\ rd[r].pc = "setlike"
    /\ \E ok \in BOOLEAN :
        likeCnt' = IF ok THEN [likeCnt EXCEPT ![rd[r].id] =
                                    [present |-> TRUE, val |-> rd[r].art.likes]]
                   ELSE likeCnt
    /\ LET c == rd[r]
           key == ArticleKey(c.id)
       IN /\ rd' = RdRelease([rd EXCEPT ![r] = [c EXCEPT !.pc = "post",
                                   !.doRes = c.art]], key, c.art)
          /\ rebuildGroup' = SfForget(rebuildGroup, key)
    /\ UNCHANGED <<bloomVars, likeVars, viewVars, dbArt, cacheArt, genCount, rebuildingMap,
                   pendingInval, bg>>

\* GetByID after Do: the error, or IncrViews and the article
PostFinish(r) ==
    /\ rd[r].pc = "post"
    /\ LET c == rd[r] IN
       IF c.doRes.status # "ok"
       THEN /\ rd' = [rd EXCEPT ![r] = [@ EXCEPT !.pc = "done", !.res = c.doRes]]
            /\ UNCHANGED viewsBuffer
       ELSE \E incrOk \in BOOLEAN :
            /\ viewsBuffer' = ViewsAfterIncr(c.id, incrOk)
            /\ rd' = [rd EXCEPT ![r] = [@ EXCEPT !.pc = "done",
                         !.res = [c.doRes EXCEPT
                                    !.views = @ + ViewsDelta(c.id, incrOk)]]]
    /\ UNCHANGED <<bloomVars, likeVars, viewsProcessing, incrDone, drainedSum, drainCycles, lastOp,
                   dbArt, cacheArt, likeCnt, genCount, rebuildingMap,
                   rebuildGroup, pendingInval, bg>>

\* rebuildArticleCache: under mu, return if the id is marked, else mark it;
\* then rebuildGroup.Do("rebuild:"+string(rune(id)), fn)
GateAlwaysPasses(marked, id) == TRUE

GatePasses(marked, id) == id \notin marked

RebuildStart(r) ==
    /\ bg[r].pc = "spawned"
    /\ LET g == bg[r]
           key == RebuildKey(g.id)
       IN IF ~GatePasses(rebuildingMap, g.id)
          THEN /\ bg' = [bg EXCEPT ![r] = [@ EXCEPT !.pc = "done"]]
               /\ UNCHANGED <<rebuildingMap, rebuildGroup>>
          ELSE /\ rebuildingMap' = rebuildingMap \cup {g.id}
               /\ IF SfInFlight(rebuildGroup, key)
                  THEN /\ bg' = [bg EXCEPT ![r] = [@ EXCEPT !.pc = "wait"]]
                       /\ UNCHANGED rebuildGroup
                  ELSE /\ bg' = [bg EXCEPT ![r] = [@ EXCEPT !.pc = "load"]]
                       /\ rebuildGroup' = SfLead(rebuildGroup, key, <<"bg", r>>)
    /\ UNCHANGED <<bloomVars, likeVars, viewVars, dbArt, cacheArt, likeCnt, genCount, pendingInval, rd>>

\* fn of rebuildArticleCache: db.GetByID, userRepo.GetByID
RebuildLoad(r) ==
    /\ bg[r].pc = "load"
    /\ \E out \in LoadOutcomes :
        LET g == bg[r]
            key == RebuildKey(g.id)
            got == LoadResult(g.id, out)
        IN IF got.status = "ok"
           THEN /\ bg' = [bg EXCEPT ![r] = [g EXCEPT !.pc = "populate", !.ver = got.ver]]
                /\ UNCHANGED rebuildGroup
           ELSE IF got.status = "notfound"
           THEN /\ bg' = [bg EXCEPT ![r] = [g EXCEPT !.pc = "evict",
                                                     !.gone = dbArt[g.id] = 0]]
                /\ UNCHANGED rebuildGroup
           ELSE /\ bg' = BgRelease([bg EXCEPT ![r] = [g EXCEPT !.pc = "clear"]], key)
                /\ rebuildGroup' = SfForget(rebuildGroup, key)
    /\ UNCHANGED <<bloomVars, likeVars, viewVars, dbArt, cacheArt, likeCnt, genCount, rebuildingMap,
                   pendingInval, rd>>

\* cache.DeleteArticle: DEL article:<id>
KeepEntry(cache, id) == cache

EvictEntry(cache, id) == [cache EXCEPT ![id] = NoEntry]

\* fn of rebuildArticleCache, article not found: cache.DeleteArticle (its
\* error dropped), return err
RebuildEvict(r) ==
    /\ bg[r].pc = "evict"
    /\ \E ok \in BOOLEAN :
        /\ cacheArt' = IF ok THEN EvictEntry(cacheArt, bg[r].id) ELSE cacheArt
        /\ LET key == RebuildKey(bg[r].id) IN
           /\ bg' = BgRelease([bg EXCEPT ![r] = [@ EXCEPT !.pc = "clear",
                                                          !.evicted = ok]], key)
           /\ rebuildGroup' = SfForget(rebuildGroup, key)
    /\ UNCHANGED <<bloomVars, likeVars, viewVars, dbArt, likeCnt, genCount, rebuildingMap,
                   pendingInval, rd>>

\* fn of rebuildArticleCache: cache.SetArticleWithLogicalExpire, return
RebuildPopulate(r) ==
    /\ bg[r].pc = "populate"
    /\ \E ok \in BOOLEAN :
        LET g == bg[r]
            key == RebuildKey(g.id)
        IN /\ cacheArt' = IF ok THEN [cacheArt EXCEPT ![g.id] =
                                         FreshEntry(Article(g.ver), genCount[g.id] + 1)]
                          ELSE cacheArt
           /\ genCount' = IF ok THEN [genCount EXCEPT ![g.id] = @ + 1] ELSE genCount
           /\ bg' = BgRelease([bg EXCEPT ![r] = [g EXCEPT !.pc = "clear",
                                    !.execd = ok]], key)
           /\ rebuildGroup' = SfForget(rebuildGroup, key)
    /\ UNCHANGED <<bloomVars, likeVars, viewVars, dbArt, likeCnt, rebuildingMap, pendingInval, rd>>

\* the deferred function of rebuildArticleCache: delete(rebuildingMap, id)
ClearMarkOnSuccess(marked, g) == IF g.execd THEN marked \ {g.id} ELSE marked

ClearMark(marked, g) == marked \ {g.id}

RebuildClear(r) ==
    /\ bg[r].pc = "clear"
    /\ rebuildingMap' = ClearMark(rebuildingMap, bg[r])
    /\ bg' = [bg EXCEPT ![r] = [@ EXCEPT !.pc = "done"]]
    /\ UNCHANGED <<bloomVars, likeVars, viewVars, dbArt, cacheArt, likeCnt, genCount, rebuildGroup,
                   pendingInval, rd>>

\* the wrapper's ExpireAt passes: IsLogicalExpired becomes true
ExpireLogical(id) ==
    /\ cacheArt[id].present /\ ~cacheArt[id].expired
    /\ cacheArt' = [cacheArt EXCEPT ![id] = [@ EXCEPT !.expired = TRUE]]
    /\ UNCHANGED <<bloomVars, likeVars, viewVars, dbArt, likeCnt, genCount, rebuildingMap,
                   rebuildGroup, pendingInval, rd, bg>>

\* the 24 h redis TTL of the key passes
ExpirePhysical(id) ==
    /\ cacheArt[id].present /\ cacheArt[id].expired
    /\ cacheArt' = [cacheArt EXCEPT ![id] = NoEntry]
    /\ UNCHANGED <<bloomVars, likeVars, viewVars, dbArt, likeCnt, genCount, rebuildingMap,
                   rebuildGroup, pendingInval, rd, bg>>

\* articleRepository.Update: db.Update, then go cache.DeleteArticle
RepoUpdateBody(id) ==
    /\ dbArt[id] > 0 /\ dbArt[id] < MaxVer
    /\ dbArt' = [dbArt EXCEPT ![id] = @ + 1]
    /\ pendingInval' = [pendingInval EXCEPT ![id] = @ + 1]
    /\ UNCHANGED <<likeVars, viewVars, cacheArt, likeCnt, genCount, rebuildingMap,
                   rebuildGroup, rd, bg>>

RepoUpdate(id) == RepoUpdateBody(id) /\ UNCHANGED bloomVars

\* articleRepository.Delete: db.Delete, then go cache.DeleteArticle
RepoDeleteBody(id) ==
    /\ dbArt[id] > 0
    /\ dbArt' = [dbArt EXCEPT ![id] = 0]
    /\ pendingInval' = [pendingInval EXCEPT ![id] = @ + 1]
    /\ UNCHANGED <<likeVars, viewVars, cacheArt, likeCnt, genCount, rebuildingMap,
                   rebuildGroup, rd, bg>>

RepoDelete(id) == RepoDeleteBody(id) /\ UNCHANGED bloomVars

\* the goroutine of Update/Delete: cache.DeleteArticle, its error dropped
InvalidateCache(id) ==
    /\ pendingInval[id] > 0
    /\ pendingInval' = [pendingInval EXCEPT ![id] = @ - 1]
    /\ \E ok \in BOOLEAN :
        cacheArt' = IF ok THEN [cacheArt EXCEPT ![id] = NoEntry] ELSE cacheArt
    /\ UNCHANGED <<bloomVars, likeVars, viewVars, dbArt, likeCnt, genCount, rebuildingMap,
                   rebuildGroup, rd, bg>>

NextRead ==
    \/ \E r \in Readers, id \in ReadIds : ReadCache(r, id)
    \/ \E r \in Readers : HitFinish(r)
    \/ \E r \in Readers : EnterDo(r)
    \/ \E r \in Readers : MissLoad(r)
    \/ \E r \in Readers : MissPopulate(r)
    \/ \E r \in Readers : MissSetLike(r)
    \/ \E r \in Readers : PostFinish(r)
    \/ \E r \in Readers : RebuildStart(r)
    \/ \E r \in Readers : RebuildLoad(r)
    \/ \E r \in Readers : RebuildEvict(r)
    \/ \E r \in Readers : RebuildPopulate(r)
    \/ \E r \in Readers : RebuildClear(r)
    \/ \E id \in ReadIds : ExpireLogical(id)
    \/ \E id \in ReadIds : ExpirePhysical(id)
    \/ \E id \in ReadIds : RepoUpdate(id)
    \/ \E id \in ReadIds : RepoDelete(id)
    \/ \E id \in ReadIds : InvalidateCache(id)

SpecRead == InitRead /\ [][NextRead]_vars

\* a rebuild goroutine that has passed the gate and not yet cleared its mark
Rebuilding(g) == g.pc \in {"wait", "load", "populate", "evict", "clear"}

\* a miss-load that is executing fn inside rebuildGroup.Do
Loading(c) == c.pc \in {"load", "populate", "setlike"}

\* two calls that ran at the same time
Overlapped(a, b) == b \in rd[a].overlap \/ a \in rd[b].overlap

\* two concurrent calls that read the same logically expired entry
SameExpiredRead(a, b) ==
    /\ a # b
    /\ Overlapped(a, b)
    /\ rd[a].saw = "expired" /\ rd[b].saw = "expired"
    /\ rd[a].id = rd[b].id /\ rd[a].sawGen = rd[b].sawGen

\* C2 as stated: concurrent GetByID calls that read the same logically
\* expired entry cause at most one rebuild (durable read and cache write) in
\* total. Violated: a goroutine scheduled after the first rebuild has cleared
\* its mark passes the gate and rebuilds again.
C2_OneRebuildInTotal ==
    \A a \in Readers, b \in Readers :
        SameExpiredRead(a, b) => ~(bg[a].execd /\ bg[b].execd)

\* C2 amended: of the rebuilds started by concurrent GetByID calls that read
\* the same logically expired entry, at most one is in progress at any time
\* (never two at once, though one may follow another), and each of the calls
\* returns an article.
C2_OneRebuildAtATime ==
    \A a \in Readers, b \in Readers :
        SameExpiredRead(a, b) =>
            /\ ~(Rebuilding(bg[a]) /\ Rebuilding(bg[b]))
            /\ rd[a].pc = "done" => rd[a].res.status = "ok"

C2_Witness ==
    \E a \in Readers, b \in Readers :
        /\ SameExpiredRead(a, b)
        /\ rd[a].pc = "done" /\ rd[b].pc = "done"
        /\ rd[a].res.status = "ok" /\ rd[b].res.status = "ok"
        /\ bg[a].pc = "populate"
        /\ bg[b].pc = "done" /\ ~bg[b].execd

\* two overlapping calls that found no cached entry for the same id
SameMiss(a, b) ==
    /\ a # b
    /\ Overlapped(a, b)
    /\ rd[a].saw = "absent" /\ rd[b].saw = "absent"
    /\ rd[a].id = rd[b].id

\* C3 as stated: of overlapping GetByID calls that find no cached entry for
\* the same id and return the article, only one has read the durable store.
\* Violated: a call that missed the cache while another was loading, and
\* reaches Do after that load has returned, executes the load itself.
C3_OneLoadPerOverlap ==
    \A a \in Readers, b \in Readers :
        SameMiss(a, b) /\ rd[a].res.status = "ok" /\ rd[b].res.status = "ok"
            => rd[a].dbReads + rd[b].dbReads <= 1

\* C3 amended: at most one miss-load per key executes at a time; a call that
\* reaches the coordinator while a load for its key is executing waits for
\* it, reads nothing from the durable store itself and receives exactly the
\* result (article or error) of that load.
C3_JoinersShareTheLoad ==
    /\ \A a \in Readers, b \in Readers :
          a # b /\ Loading(rd[a]) /\ Loading(rd[b])
              => ArticleKey(rd[a].id) # ArticleKey(rd[b].id)
    /\ \A r \in Readers :
          rd[r].joined # 0 =>
              /\ rd[r].dbReads = 0
              /\ rd[r].pc = "wait" => Loading(rd[rd[r].joined])
              /\ rd[r].pc \in {"post", "done"} => rd[r].doRes = rd[rd[r].joined].doRes
              /\ rd[r].pc = "done" /\ rd[r].res.status = "ok"
                    => rd[r].res.ver = rd[rd[r].joined].doRes.ver

C3_Witness ==
    \E r \in Readers :
        /\ rd[r].joined # 0
        /\ rd[r].saw = "absent"
        /\ rd[r].pc = "done" /\ rd[r].res.status = "ok"
        /\ rd[rd[r].joined].dbReads = 1

\* C4: a GetByID that finds a logically expired, physically present entry
\* reads nothing from the durable store and returns the cached payload; and
\* for each article id at most one rebuild goroutine is past the gate at any
\* time, which is the one the in-progress mark stands for.
C4_StaleServedOneRebuild ==
    /\ \A r \in Readers :
          rd[r].saw = "expired" =>
              /\ rd[r].dbReads = 0
              /\ rd[r].joined = 0
              /\ rd[r].pc \in {"hit", "done"}
              /\ rd[r].pc = "done" =>
                    rd[r].res.status = "ok" /\ rd[r].res.ver = rd[r].sawVer
    /\ \A id \in ReadIds :
          /\ Cardinality({r \in Readers : Rebuilding(bg[r]) /\ bg[r].id = id}) <= 1
          /\ id \in rebuildingMap <=> \E r \in Readers : Rebuilding(bg[r]) /\ bg[r].id = id

C4_Witness ==
    \E a \in Readers, b \in Readers :
        /\ a # b
        /\ rd[a].saw = "expired" /\ rd[a].pc = "done"
        /\ rd[a].res.ver < dbArt[rd[a].id]
        /\ bg[a].pc = "populate"
        /\ rd[b].saw = "expired" /\ rd[b].id = rd[a].id
        /\ bg[b].pc = "done" /\ ~bg[b].execd

\* C16: when no rebuild of an article id is between passing the gate and
\* its deferred function (all have ended, by success or by any error, or
\* none has begun), the id is not marked in rebuildingMap, so a goroutine
\* spawned by an expired read passes the gate.
C16_MarkClearedAtEnd ==
    \A id \in ReadIds :
        (\A r \in Readers : bg[r].id = id => ~Rebuilding(bg[r]))
            => /\ id \notin rebuildingMap
               /\ \A r \in Readers :
                     (bg[r].pc = "spawned" /\ bg[r].id = id) => GatePasses(rebuildingMap, id)

C16_Witness ==
    \E a \in Readers, b \in Readers :
        /\ a # b
        /\ bg[a].pc = "done" /\ bg[a].ver > 0 /\ ~bg[a].execd
        /\ bg[b].id = bg[a].id
        /\ bg[b].pc = "spawned"
        /\ bg[a].id \notin rebuildingMap

Quiet(id) ==
    /\ pendingInval[id] = 0
    /\ \A r \in Readers : rd[r].id = id => ~InProgress(rd[r])
    /\ \A r \in Readers : bg[r].id = id => bg[r].pc \in {"none", "done"}

\* C22 as stated: once an Update or Delete of id has returned and everything
\* in flight for id has finished, a cache entry for id, if there is one,
\* holds the article as the store has it now.
\* Violated: a miss-load or rebuild that read the store before the write
\* populates the cache after the invalidation has deleted the key (and the
\* error of a failed DeleteArticle is dropped).
C22_NoStaleAfterWrite ==
    \A id \in ReadIds :
        (Quiet(id) /\ dbArt[id] # 1) =>
            (cacheArt[id].present => cacheArt[id].ver = dbArt[id])

\* C31 as stated: a DeleteArticle(id) that removes the cached article entry
\* of id also removes the view-buffer field and the like counter of id.
\* Violated: DeleteArticle is one DEL of article:<id>.
C31_DeleteClearsViewsAndLikes ==
    [][\A id \in ReadIds :
          (pendingInval'[id] < pendingInval[id] /\ cacheArt[id].present
                /\ ~cacheArt'[id].present)
             => /\ ~likeCnt'[id].present
                /\ FormatInt(id) \notin DOMAIN viewsBuffer']_vars

\* C35 as stated: a background rebuild evicts the cached entry only when
\* its read of the store found the article absent; when the read failed
\* for another reason the stale entry stays.  Violated: mysql GetByID turns
\* every error of the query into ErrNotFound, which the rebuild takes for
\* absence.
C35_EvictOnlyWhenGone ==
    \A r \in Readers : bg[r].evicted => bg[r].gone

\* C37 as stated: a caller that waited on the coalesced load of another
\* caller whose context was cancelled during the load still obtains the
\* article, when the store has it, not the failure the cancellation caused.
\* Violated: the function given to Do closes over the executing caller's
\* ctx, and Do hands its one result to every caller of the key.
C37_WaiterSurvivesCancel ==
    \A q \in Readers :
        (/\ rd[q].pc \in {"post", "done"} /\ rd[q].joined # 0
         /\ rd[rd[q].joined].cancelled /\ rd[rd[q].joined].id = rd[q].id
         /\ dbArt[rd[q].id] > 0)
            => rd[q].doRes.status = "ok"

\* ------------------------------------------------------------------------
\* SpecLikes: service AddLikeRecord / RemoveLikeRecord, the cache scripts,
\* syncLikesWorker and the durable ApplyLikeChanges.  The ids of LikeArts
\* have been added to the existence filter, so mustExists lets them pass;
\* article 6 has since been deleted from the durable store.
\* ------------------------------------------------------------------------
LikeArts == {5, 6}
LikeExisting == {5}
LikeUsers == {1, 2}
LikeCallers == {1}

Like == 1
Unlike == -1
LikeRecordLimit == 300

NoSet == [present |-> FALSE, members |-> {}, ttl |-> FALSE]

\* a variant of the script that scores the article on the already-liked path
AddLikeScriptScoresAgain(ls, cnt, hot, aid) ==
    IF ~ls.present THEN [res |-> -1, set |-> ls, cnt |-> cnt, hot |-> hot]
    ELSE IF aid \in ls.members THEN [res |-> 0, set |-> ls, cnt |-> cnt, hot |-> hot + 1]
    ELSE [res |-> 1,
          set |-> [present |-> TRUE, members |-> ls.members \cup {aid}, ttl |-> TRUE],
          cnt |-> IF cnt.present THEN [cnt EXCEPT !.val = @ + 1] ELSE cnt,
          hot |-> hot + 1]

\* the script of articleCache.AddLikeRecord: -1 key absent, 0 already liked,
\* 1 liked (SADD, EXPIRE, ZINCRBY +1, INCR of the counter if it exists)
AddLikeScript(ls, cnt, hot, aid) ==
    IF ~ls.present THEN [res |-> -1, set |-> ls, cnt |-> cnt, hot |-> hot]
    ELSE IF aid \in ls.members THEN [res |-> 0, set |-> ls, cnt |-> cnt, hot |-> hot]
    ELSE [res |-> 1,
          set |-> [present |-> TRUE, members |-> ls.members \cup {aid}, ttl |-> TRUE],
          cnt |-> IF cnt.present THEN [cnt EXCEPT !.val = @ + 1] ELSE cnt,
          hot |-> hot + 1]

\* a variant of the script that DECRs the counter without the EXISTS test
DecrLikeScriptMakesCounter(ls, cnt, hot, aid) ==
    IF ~ls.present THEN [res |-> -1, set |-> ls, cnt |-> cnt, hot |-> hot]
    ELSE IF aid \notin ls.members THEN [res |-> 0, set |-> ls, cnt |-> cnt, hot |-> hot]
    ELSE [res |-> 1,
          set |-> IF ls.members \ {aid} = {} THEN NoSet
                  ELSE [present |-> TRUE, members |-> ls.members \ {aid}, ttl |-> TRUE],
          cnt |-> [present |-> TRUE, val |-> cnt.val - 1],
          hot |-> hot - 1]

\* the script of articleCache.DecrLikeRecord: -1 key absent, 0 not liked,
\* 1 unliked (SREM, EXPIRE, ZINCRBY -1, DECR of the counter if it exists);
\* a set that SREM leaves empty no longer exists
DecrLikeScript(ls, cnt, hot, aid) ==
    IF ~ls.present THEN [res |-> -1, set |-> ls, cnt |-> cnt, hot |-> hot]
    ELSE IF aid \notin ls.members THEN [res |-> 0, set |-> ls, cnt |-> cnt, hot |-> hot]
    ELSE [res |-> 1,
          set |-> IF ls.members \ {aid} = {} THEN NoSet
                  ELSE [present |-> TRUE, members |-> ls.members \ {aid}, ttl |-> TRUE],
          cnt |-> IF cnt.present THEN [cnt EXCEPT !.val = @ - 1] ELSE cnt,
          hot |-> hot - 1]

RunLikeScript(action, ls, cnt, hot, aid) ==
    IF action = Like THEN AddLikeScript(ls, cnt, hot, aid)
    ELSE DecrLikeScript(ls, cnt, hot, aid)

\* ORDER BY article_id DESC LIMIT n
RECURSIVE TopDesc(_, _)
TopDesc(S, n) ==
    IF S = {} \/ n = 0 THEN {}
    ELSE LET m == CHOOSE x \in S : \A y \in S : y <= x
         IN {m} \cup TopDesc(S \ {m}, n - 1)

\* mysql FetchUserLikedArticles(uid, limit)
FetchUserLikedArticles(rows, uid, limit) ==
    TopDesc({p[1] : p \in {q \in rows : q[2] = uid}}, limit)

\* a variant that rewrites the key (DEL, then SADD) instead of adding to it
ReplaceUserLikedArticles(ls, aids) ==
    [present |-> TRUE,
     members |-> IF aids = {} THEN {-1} ELSE aids,
     ttl |-> FALSE]

\* articleCache.SetUserLikedArticles: SADD of the ids, of -1 if there is none
SetUserLikedArticles(ls, aids) ==
    [present |-> TRUE,
     members |-> (IF ls.present THEN ls.members ELSE {})
                     \cup (IF aids = {} THEN {-1} ELSE aids),
     ttl |-> ls.present /\ ls.ttl]

\* flush: the map keeps one action per (article, user), the one written last
FirstAction(b, k) ==
    LET i == CHOOSE j \in 1..Len(b) :
                 /\ <<b[j].aid, b[j].uid>> = k
                 /\ \A l \in 1..(j - 1) : <<b[l].aid, b[l].uid>> # k
    IN b[i].action

LastAction(b, k) ==
    LET i == CHOOSE j \in 1..Len(b) :
                 /\ <<b[j].aid, b[j].uid>> = k
                 /\ \A l \in (j + 1)..Len(b) : <<b[l].aid, b[l].uid>> # k
    IN b[i].action

TaskKeys(b) == {<<b[i].aid, b[i].uid>> : i \in 1..Len(b)}

FlushChanges(b) ==
    [ToAdd |-> {k \in TaskKeys(b) : LastAction(b, k) = Like},
     ToRemove |-> {k \in TaskKeys(b) : LastAction(b, k) = Unlike}]

\* the orders in which the range over the map may visit its keys
KeyOrders(S) ==
    {q \in [1..Cardinality(S) -> S] : \A i, j \in 1..Cardinality(S) : q[i] = q[j] => i = j}

\* flush: the slices ToAdd and ToRemove built by the range over the map
FlushEveryTask(b, order) ==
    [ToAdd |-> SelectSeq([i \in 1..Len(b) |-> <<b[i].aid, b[i].uid>>],
                         LAMBDA k : \E i \in 1..Len(b) :
                                       <<b[i].aid, b[i].uid>> = k /\ b[i].action = Like),
     ToRemove |-> SelectSeq([i \in 1..Len(b) |-> <<b[i].aid, b[i].uid>>],
                            LAMBDA k : \E i \in 1..Len(b) :
                                          <<b[i].aid, b[i].uid>> = k /\ b[i].action = Unlike)]

FlushLists(b, order) ==
    [ToAdd |-> SelectSeq(order, LAMBDA k : LastAction(b, k) = Like),
     ToRemove |-> SelectSeq(order, LAMBDA k : LastAction(b, k) = Unlike)]

\* Send: select { case s.ch <- task: default: }, the task is dropped when
\* the channel is full
ChanFull(q) == Len(q) >= QueueCap

ChanSendEvict(q, t) == IF ChanFull(q) THEN Append(Tail(q), t) ELSE Append(q, t)

ChanSend(q, t) == IF ChanFull(q) THEN q ELSE Append(q, t)

\* SELECT count(*) FROM user_likes WHERE article_id = a
RealCount(rows, a) == Cardinality({p \in rows : p[1] = a})

Affected(ch) == {k[1] : k \in ch.ToRemove \cup ch.ToAdd}

\* the last loop of ApplyLikeChanges: likes := count of rows, per affected id
AdjustLikesByEvents(likes, rows, ch) ==
    [a \in DOMAIN likes |->
        likes[a] + Cardinality({k \in ch.ToAdd : k[1] = a})
                 - Cardinality({k \in ch.ToRemove : k[1] = a})]

RecountLikes(likes, rows, ch) ==
    [a \in DOMAIN likes |->
        IF a \in Affected(ch) THEN RealCount(rows, a) ELSE likes[a]]

\* the transaction of ApplyLikeChanges when it commits: ToAdd filtered to the
\* existing articles, the rows of toRemove (the zero rows make() put in front
\* of it included) deleted, filteredAdd upserted, likes recounted
ApplyLikeChanges(rows, likes, ch) ==
    LET filteredAdd == {k \in ch.ToAdd : k[1] \in DOMAIN likes}
        toRemove == IF ch.ToRemove = {} THEN {} ELSE ch.ToRemove \cup {<<0, 0>>}
        rows1 == (rows \ toRemove) \cup filteredAdd
    IN [rows |-> rows1, likes |-> RecountLikes(likes, rows1, ch)]

\* the durable store holds another user's like of article 5 or none, the
\* likes column says 1 (so it may already differ from the row count), no
\* liked-set is cached and the cached like count mirrors the column
InitLikes ==
    /\ ViewsIdle
    /\ ReadIdle
    /\ BloomIdle
    /\ likeRows \in SUBSET {<<5, 2>>}
    /\ likesCol = [a \in LikeExisting |-> 1]
    /\ likedSet = [u \in LikeUsers |-> NoSet]
    /\ likeCnt = [a \in LikeArts |->
                    IF a \in LikeExisting
                    THEN [present |-> TRUE, val |-> likesCol[a]]
                    ELSE NoCount]
    /\ hotRaw = [a \in LikeArts |-> 0]
    /\ likeQueue = << >>
    /\ batch = << >>
    /\ lk = NoLikeCall
    /\ hist = << >>
    /\ lastTx = NoTx
    /\ flushed = 0
    /\ lost = FALSE
    /\ lastFlush = NoFlush
    /\ SideIdle

\* the call returns res to its caller
Returned(res) ==
    /\ lk' = NoLikeCall
    /\ hist' = Append(hist, [aid |-> lk.aid, uid |-> lk.uid, action |-> lk.action,
                             res |-> res, flushed |-> flushed, quiet |-> lk.quiet])

\* service.AddLikeRecord / RemoveLikeRecord is called; mustExists passes
StartLikeBody(u, a, act) ==
    /\ lk.pc = "idle"
    /\ Len(hist) < MaxCalls
    /\ lk' = [pc |-> "script", aid |-> a, uid |-> u, action |-> act, fetched |-> {},
              quiet |-> likeQueue = << >> /\ batch = << >>]
    /\ UNCHANGED <<viewVars, sideVars, lastFlush, readVars, likedSet, hotRaw, likeQueue, batch, likeRows,
                   likesCol, hist, lastTx, flushed, lost>>

StartLike(u, a, act) == StartLikeBody(u, a, act) /\ UNCHANGED bloomVars

\* articleCache.AddLikeRecord / DecrLikeRecord, first attempt or the retry
\* after the reload; the retry hands ErrCacheMiss to the caller
ScriptStep(retry) ==
    \E ok \in BOOLEAN :
        LET r == RunLikeScript(lk.action, likedSet[lk.uid], likeCnt[lk.aid],
                               hotRaw[lk.aid], lk.aid)
        IN IF ~ok
           THEN /\ Returned("error")
                /\ UNCHANGED <<likedSet, likeCnt, hotRaw>>
           ELSE /\ likedSet' = [likedSet EXCEPT ![lk.uid] = r.set]
                /\ likeCnt' = [likeCnt EXCEPT ![lk.aid] = r.cnt]
                /\ hotRaw' = [hotRaw EXCEPT ![lk.aid] = r.hot]
                /\ IF r.res = 1 THEN lk' = [lk EXCEPT !.pc = "send"] /\ UNCHANGED hist
                   ELSE IF r.res = 0 THEN Returned("false")
                   ELSE IF retry THEN Returned("cachemiss")
                   ELSE lk' = [lk EXCEPT !.pc = "fetch"] /\ UNCHANGED hist

LikeScript ==
    /\ lk.pc = "script"
    /\ ScriptStep(FALSE)
    /\ UNCHANGED <<bloomVars, viewVars, sideVars, lastFlush, dbArt, cacheArt, genCount, rebuildingMap,
                   rebuildGroup, pendingInval, rd, bg, likeQueue, batch, likeRows, likesCol,
                   lastTx, flushed, lost>>

\* ErrCacheMiss: articleRepo.FetchUserLikedArticles(uid, LikeRecordLimit)
LikeFetch ==
    /\ lk.pc = "fetch"
    /\ \E ok \in BOOLEAN :
        IF ok
        THEN /\ lk' = [lk EXCEPT !.pc = "hydrate",
                          !.fetched = FetchUserLikedArticles(likeRows, lk.uid,
                                                             LikeRecordLimit)]
             /\ UNCHANGED hist
        ELSE Returned("error")
    /\ UNCHANGED <<bloomVars, viewVars, sideVars, lastFlush, readVars, likedSet, hotRaw, likeQueue, batch, likeRows,
                   likesCol, lastTx, flushed, lost>>

\* articleCache.SetUserLikedArticles(uid, likedArticles)
LikeHydrate ==
    /\ lk.pc = "hydrate"
    /\ \E ok \in BOOLEAN :
        IF ok
        THEN /\ likedSet' = [likedSet EXCEPT ![lk.uid] =
                                SetUserLikedArticles(likedSet[lk.uid], lk.fetched)]
             /\ lk' = [lk EXCEPT !.pc = "retry"]
             /\ UNCHANGED hist
        ELSE Returned("error") /\ UNCHANGED likedSet
    /\ UNCHANGED <<bloomVars, viewVars, sideVars, lastFlush, readVars, hotRaw, likeQueue, batch, likeRows, likesCol,
                   lastTx, flushed, lost>>

LikeRetry ==
    /\ lk.pc = "retry"
    /\ ScriptStep(TRUE)
    /\ UNCHANGED <<bloomVars, viewVars, sideVars, lastFlush, dbArt, cacheArt, genCount, rebuildingMap,
                   rebuildGroup, pendingInval, rd, bg, likeQueue, batch, likeRows, likesCol,
                   lastTx, flushed, lost>>

\* syncLikesWorker.Send: enqueue, or drop the task when the channel is full
LikeSend ==
    /\ lk.pc = "send"
    /\ likeQueue' = ChanSend(likeQueue, [aid |-> lk.aid, uid |-> lk.uid,
                                         action |-> lk.action])
    /\ lost' = (lost \/ ChanFull(likeQueue))
    /\ Returned("true")
    /\ UNCHANGED <<bloomVars, viewVars, sideVars, lastFlush, readVars, likedSet, hotRaw, batch, likeRows, likesCol,
                   lastTx, flushed>>

\* syncLikesWorker.flush: the map gives one action per (article, user), the
\* range over it appends each key to ToAdd or ToRemove in some order;
\* ApplyLikeChanges commits or fails as a whole, and its error is dropped
Flush(b) ==
    \E ok \in BOOLEAN, order \in KeyOrders(TaskKeys(b)) :
        LET lists == FlushLists(b, order)
            ch == [ToAdd |-> SeqRange(lists.ToAdd), ToRemove |-> SeqRange(lists.ToRemove)]
            r == ApplyLikeChanges(likeRows, likesCol, ch)
        IN /\ likeRows' = IF ok THEN r.rows ELSE likeRows
           /\ likesCol' = IF ok THEN r.likes ELSE likesCol
           /\ lastTx' = IF b = << >> THEN lastTx
                        ELSE [status |-> IF ok THEN "committed" ELSE "failed",
                              affected |-> Affected(ch),
                              rowsBefore |-> likeRows, likesBefore |-> likesCol]
           /\ lastFlush' = IF b = << >> THEN lastFlush
                           ELSE [batch |-> b, ToAdd |-> lists.ToAdd,
                                 ToRemove |-> lists.ToRemove]
           /\ flushed' = IF b = << >> THEN flushed ELSE flushed + 1
           /\ lost' = (lost \/ (~ok /\ b # << >>))

\* Start, case task := <-s.ch
WorkerRecv ==
    /\ likeQueue # << >>
    /\ likeQueue' = Tail(likeQueue)
    /\ LET b == Append(batch, Head(likeQueue)) IN
       IF Len(b) = batchSize
       THEN Flush(b) /\ batch' = << >>
       ELSE batch' = b /\ UNCHANGED <<likeRows, likesCol, lastTx, lastFlush, flushed, lost>>
    /\ UNCHANGED <<bloomVars, viewVars, sideVars, readVars, likedSet, hotRaw, lk, hist>>

\* Start, case <-ticker.C
WorkerTick ==
    /\ Flush(batch)
    /\ batch' = << >>
    /\ UNCHANGED <<bloomVars, viewVars, sideVars, readVars, likedSet, hotRaw, likeQueue, lk, hist>>

\* the 1800 s the scripts give the liked-set pass without a change to it
ExpireLikedSet(u) ==
    /\ likedSet[u].present /\ likedSet[u].ttl
    /\ likedSet' = [likedSet EXCEPT ![u] = NoSet]
    /\ UNCHANGED <<bloomVars, viewVars, sideVars, lastFlush, readVars, hotRaw, likeQueue, batch, likeRows, likesCol,
                   lk, hist, lastTx, flushed, lost>>

NextLikes ==
    \/ \E u \in LikeCallers, a \in LikeArts, act \in {Like, Unlike} : StartLike(u, a, act)
    \/ LikeScript
    \/ LikeFetch
    \/ LikeHydrate
    \/ LikeRetry
    \/ LikeSend
    \/ WorkerRecv
    \/ WorkerTick
    \/ \E u \in LikeUsers : ExpireLikedSet(u)

SpecLikes == InitLikes /\ [][NextLikes]_vars

\* the calls for one (article, user) that have returned, in order
PairCalls(a, u) == SelectSeq(hist, LAMBDA h : h.aid = a /\ h.uid = u)

\* C5 as stated, for an existing article and a second call that begins when
\* the worker holds nothing: of two successive AddLikeRecord calls for one
\* (article, user) with no RemoveLikeRecord between them, the second does
\* not return changed=true after the first did.
C5_TrueThenFalse ==
    \A a \in LikeExisting, u \in LikeCallers :
        LET h == PairCalls(a, u) IN
        \A i \in 1..(Len(h) - 1) :
            (/\ h[i].action = Like /\ h[i].res = "true"
             /\ h[i + 1].action = Like /\ h[i + 1].quiet)
                => h[i + 1].res # "true"

\* C6: user u liked an existing article a, unliked it and liked it again,
\* each call returning changed=true, before any batch was flushed. Once the
\* worker has flushed the three tasks (none dropped, no transaction failed)
\* the durable store has the like row (a,u) and a's likes column equals the
\* number of a's like rows.
LikeUnlikeLike(h) ==
    /\ Len(h) = 3
    /\ h[1].action = Like /\ h[2].action = Unlike /\ h[3].action = Like
    /\ \A i \in 1..3 : h[i].res = "true"
    /\ h[3].flushed = 0

AllFlushed == lk.pc = "idle" /\ likeQueue = << >> /\ batch = << >> /\ ~lost

C7_RecountAfterCommit ==
    /\ lastTx.status = "committed" =>
          \A a \in lastTx.affected \cap LikeExisting :
              likesCol[a] = RealCount(likeRows, a)
    /\ lastTx.status = "failed" =>
          likeRows = lastTx.rowsBefore /\ likesCol = lastTx.likesBefore

C7_Witness ==
    /\ lastTx.status = "committed"
    /\ 5 \in lastTx.affected
    /\ lastTx.likesBefore[5] # RealCount(lastTx.rowsBefore, 5)
    /\ likeRows # lastTx.rowsBefore
    /\ likesCol[5] = RealCount(likeRows, 5)

\* a step in which the call in progress ran its cache script (first attempt
\* or the retry after the reload)
ScriptRan == lk.pc \in {"script", "retry"} /\ lk' # lk

\* the pair of the call is already in the state the call asks for
AlreadyThere ==
    /\ likedSet[lk.uid].present
    /\ lk.action = Like => lk.aid \in likedSet[lk.uid].members
    /\ lk.action = Unlike => lk.aid \notin likedSet[lk.uid].members

\* C18: a script run for a pair that is already in the asked-for state (a
\* Like of a member, an Unlike of a non-member of a cached liked-set) ends
\* the service call with changed=false (or with the error of the redis call)
\* and changes neither the liked-sets, the score bucket, the like counters
\* nor the worker's channel; and changed=false is returned in no other case.
C18_NoOpLeavesCache ==
    [][/\ (ScriptRan /\ AlreadyThere) =>
            /\ lk' = NoLikeCall
            /\ hist'[Len(hist')].res \in {"false", "error"}
            /\ UNCHANGED <<likedSet, hotRaw, likeCnt, likeQueue, lost>>
       /\ (Len(hist') > Len(hist) /\ hist'[Len(hist')].res = "false") =>
            ScriptRan /\ AlreadyThere]_vars

C18_Witness ==
    \E i \in 1..Len(hist), j \in 1..Len(hist) :
        /\ hist[i].res = "false" /\ hist[i].action = Like
        /\ hist[j].res = "false" /\ hist[j].action = Unlike
        /\ Len(likeQueue) + Len(batch) + flushed <= 1

\* C19: a script run that reports a change (the call goes on to Send) puts
\* the article into the user's liked-set on a Like and takes it out on an
\* Unlike, leaves every other member and every other user's set alone, adds
\* the action (+1 or -1) to the article's score, and adds it to the article's
\* like counter exactly when that counter is cached; no script run makes a
\* like counter appear or disappear.
C19_ChangeToggles ==
    [][/\ (ScriptRan /\ lk'.pc = "send") =>
            LET a == lk.aid
                u == lk.uid
            IN /\ (a \in likedSet'[u].members) # (a \in likedSet[u].members)
               /\ (a \in likedSet'[u].members) <=> (lk.action = Like)
               /\ likedSet'[u].members \ {a} = likedSet[u].members \ {a}
               /\ \A v \in LikeUsers \ {u} : likedSet'[v] = likedSet[v]
               /\ hotRaw' = [hotRaw EXCEPT ![a] = @ + lk.action]
               /\ likeCnt' = IF likeCnt[a].present
                             THEN [likeCnt EXCEPT ![a].val = @ + lk.action]
                             ELSE likeCnt
       /\ ScriptRan =>
            \A a \in LikeArts : likeCnt'[a].present = likeCnt[a].present]_vars

C19_Witness ==
    /\ Len(hist) = 3
    /\ \A i \in 1..3 : hist[i].res = "true"
    /\ hotRaw[5] = 0 /\ hotRaw[6] = 1
    /\ likeCnt[5].present /\ likeCnt[5].val = 1
    /\ ~likeCnt[6].present
    /\ likedSet[1].members \cap LikeArts = {6}

\* ------------------------------------------------------------------------
\* SpecBloom: redisBloomRepo (Add, Exists, getOffset, BulkAdd), the seeding
\* of InitBloomFilter, service.Store and the gate mustExists
\* ------------------------------------------------------------------------
BloomIds == 1..MaxId

\* unsigned words as sequences of bits, least significant bit first
RECURSIVE ToBits(_, _)
ToBits(n, w) == IF w = 0 THEN << >> ELSE <<n % 2>> \o ToBits(n \div 2, w - 1)

RECURSIVE HexToBits(_)
HexToBits(h) ==
    IF h = << >> THEN << >>
    ELSE ToBits(h[Len(h)], 4) \o HexToBits(SubSeq(h, 1, Len(h) - 1))

RECURSIVE Xor(_, _)
Xor(a, b) ==
    IF a = << >> THEN << >>
    ELSE <<(Head(a) + Head(b)) % 2>> \o Xor(Tail(a), Tail(b))

ShiftRight1(a) == Tail(a) \o <<0>>

ShiftLeft(a, k) == SubSeq(ToBits(0, k) \o a, 1, Len(a))

RECURSIVE AddBits(_, _, _)
AddBits(a, b, carry) ==
    IF a = << >> THEN << >>
    ELSE <<(Head(a) + Head(b) + carry) % 2>>
             \o AddBits(Tail(a), Tail(b), (Head(a) + Head(b) + carry) \div 2)

RECURSIVE ModBits(_, _)
ModBits(a, m) == IF a = << >> THEN 0 ELSE (Head(a) + 2 * ModBits(Tail(a), m)) % m

\* crc32.ChecksumIEEE: reflected polynomial 0xEDB88320, initial value and
\* final xor 0xFFFFFFFF
CrcPoly == HexToBits(<<14, 13, 11, 8, 8, 3, 2, 0>>)
CrcOnes == HexToBits(<<15, 15, 15, 15, 15, 15, 15, 15>>)

RECURSIVE CrcRounds(_, _)
CrcRounds(crc, k) ==
    IF k = 0 THEN crc
    ELSE CrcRounds(IF Head(crc) = 1 THEN Xor(ShiftRight1(crc), CrcPoly)
                   ELSE ShiftRight1(crc), k - 1)

RECURSIVE CrcBytes(_, _)
CrcBytes(crc, data) ==
    IF data = << >> THEN crc
    ELSE CrcBytes(CrcRounds(Xor(crc, ToBits(Head(data), 32)), 8), Tail(data))

ChecksumIEEE(data) == Xor(CrcBytes(CrcOnes, data), CrcOnes)

\* fnv.New64 (FNV-1): offset basis 0xcbf29ce484222325, per byte multiply by
\* the prime 0x100000001b3 = 2^40 + 2^8 + 2^7 + 2^5 + 2^4 + 2 + 1, then xor
FnvOffset64 == HexToBits(<<12, 11, 15, 2, 9, 12, 14, 4, 8, 4, 2, 2, 2, 3, 2, 5>>)

FnvTimesPrime(h) ==
    LET low == AddBits(AddBits(AddBits(h, ShiftLeft(h, 1), 0), ShiftLeft(h, 4), 0),
                       AddBits(ShiftLeft(h, 5), ShiftLeft(h, 7), 0), 0)
    IN AddBits(AddBits(low, ShiftLeft(h, 8), 0), ShiftLeft(h, 40), 0)

RECURSIVE FnvBytes(_, _)
FnvBytes(h, data) ==
    IF data = << >> THEN h
    ELSE FnvBytes(Xor(FnvTimesPrime(h), ToBits(Head(data), 64)), Tail(data))

Sum64(data) == FnvBytes(FnvOffset64, data)

\* redisBloomRepo.getOffset: the three offsets of the decimal string of id
getOffset(id) ==
    LET data == FormatInt(id)
        o0 == ModBits(ChecksumIEEE(data), BloomBitSize)
        o1 == ModBits(Sum64(data), BloomBitSize)
    IN <<o0, o1, (o0 + o1 + (10 * 256 + 11 * 16 + 12)) % BloomBitSize>>

BloomOffsets == [id \in BloomIds |-> {getOffset(id)[i] : i \in 1..3}]

BitsOf(ids) == UNION {BloomOffsets[id] : id \in ids}

\* SETBIT key offset 1, for each offset of the pipeline
OverwriteBits(bits, offs) == offs

SetBits(bits, offs) == bits \cup offs

\* redisBloomRepo.Exists: (false, err) when the pipeline fails, else whether
\* every GETBIT answered 1
BloomExists(bits, id, failed) ==
    [exists |-> ~failed /\ BloomOffsets[id] \subseteq bits, err |-> failed]

\* service.mustExists: ErrNotFound only if Exists answered (false, nil)
StrictGate(answer) == IF ~answer.exists THEN "notfound" ELSE "pass"

mustExists(answer) == IF ~answer.err /\ ~answer.exists THEN "notfound" ELSE "pass"

GatedOps == {"GetByID", "Update", "Delete", "AddLikeRecord", "RemoveLikeRecord"}

\* mysql FetchIDs(cursor, limit): the ids above the cursor, ascending, at
\* most limit of them
RECURSIVE FetchIDs(_, _, _)
FetchIDs(ids, cursor, limit) ==
    LET above == {i \in ids : i > cursor} IN
    IF above = {} \/ limit = 0 THEN << >>
    ELSE LET m == CHOOSE x \in above : \A y \in above : x <= y
         IN <<m>> \o FetchIDs(ids, m, limit - 1)

\* main after InitBloomFilter: return on an error, else register the routes
\* and start the server
ServeAnyway(err) == "serving"

StartupOutcome(err) == IF err THEN "failed" ELSE "serving"

\* the process starts: the store holds the articles left by earlier runs,
\* the bitmap is empty or holds what earlier runs set; InitBloomFilter begins
InitBloom ==
    /\ ViewsIdle
    /\ ReadIdle
    /\ LikesIdle
    /\ likeCnt = [id \in ReadIds |-> NoCount]
    /\ lastId \in 0..MaxId
    /\ dbIds \in SUBSET (1..lastId)
    /\ bloomBits \in {{}, BitsOf(1..lastId)}
    /\ bloomEver = bloomBits
    /\ bloomAdded = {}
    /\ seedCursor = 0
    /\ idBatchChan = << >>
    /\ producerDone = FALSE
    /\ scanned = {}
    /\ seedErr = FALSE
    /\ phase = "seeding"
    /\ storing = 0
    /\ gate = NoGate

\* InitBloomFilter, the producer: FetchIDs(cursor, BatchSize); an error (of
\* the query, or ctx.Done() in the select) ends the producer with it, an
\* empty page ends it with nil, otherwise the page is sent and the cursor
\* moves to its last id; the deferred close(idBatchChan) runs in each case
SeedFetch ==
    /\ phase = "seeding" /\ ~producerDone
    /\ \E ok \in BOOLEAN :
        LET ids == FetchIDs(dbIds, seedCursor, BatchSize) IN
        IF ~ok
        THEN /\ seedErr' = TRUE
             /\ producerDone' = TRUE
             /\ UNCHANGED <<seedCursor, idBatchChan, scanned>>
        ELSE IF Len(ids) = 0
        THEN /\ producerDone' = TRUE
             /\ UNCHANGED <<seedCursor, idBatchChan, scanned, seedErr>>
        ELSE /\ idBatchChan' = Append(idBatchChan, ids)
             /\ seedCursor' = ids[Len(ids)]
             /\ scanned' = scanned \cup SeqRange(ids)
             /\ UNCHANGED <<producerDone, seedErr>>
    /\ UNCHANGED <<viewVars, readVars, likeVars, bloomBits, bloomEver, bloomAdded, dbIds,
                   lastId, phase, storing, gate>>

\* InitBloomFilter, a writer: receive one batch and BulkAdd it; an error of
\* the pipeline ends the writer with it
SeedBulkAdd ==
    /\ phase = "seeding"
    /\ idBatchChan # << >>
    /\ LET ids == SeqRange(Head(idBatchChan)) IN
       \E ok \in BOOLEAN, part \in SUBSET BitsOf(ids) :
        /\ ok => part = BitsOf(ids)
        /\ bloomBits' = SetBits(bloomBits, part)
        /\ bloomEver' = bloomEver \cup part
        /\ bloomAdded' = IF ok THEN bloomAdded \cup ids ELSE bloomAdded
        /\ seedErr' = (seedErr \/ ~ok)
    /\ idBatchChan' = Tail(idBatchChan)
    /\ UNCHANGED <<viewVars, readVars, likeVars, dbIds, lastId, seedCursor, producerDone,
                   scanned, phase, storing, gate>>

\* g.Wait() returns once the producer and the writers have returned: the
\* writers return when the closed channel is drained, or earlier on their
\* error; main returns on an error and serves otherwise
SeedDone ==
    /\ phase = "seeding"
    /\ producerDone
    /\ idBatchChan = << >> \/ seedErr
    /\ phase' = StartupOutcome(seedErr)
    /\ UNCHANGED <<viewVars, readVars, likeVars, bloomBits, bloomEver, bloomAdded,
                   dbIds, lastId, seedVars, storing, gate>>

\* service.Store: articleRepo.Store inserts the row and assigns the id
StoreInsert ==
    /\ phase = "serving" /\ storing = 0 /\ lastId < MaxId
    /\ lastId' = lastId + 1
    /\ dbIds' = dbIds \cup {lastId + 1}
    /\ storing' = lastId + 1
    /\ UNCHANGED <<viewVars, readVars, likeVars, bloomBits, bloomEver, bloomAdded,
                   seedVars, phase, gate>>

\* service.Store: bloomRepo.Add(m.ID), its error not looked at
StoreBloomAdd ==
    /\ storing # 0
    /\ \E ok \in BOOLEAN, part \in SUBSET BloomOffsets[storing] :
        /\ ok => part = BloomOffsets[storing]
        /\ bloomBits' = SetBits(bloomBits, part)
        /\ bloomEver' = bloomEver \cup part
        /\ bloomAdded' = IF ok THEN bloomAdded \cup {storing} ELSE bloomAdded
    /\ storing' = 0
    /\ UNCHANGED <<viewVars, readVars, likeVars, dbIds, lastId, seedVars, phase, gate>>

\* GetByID, Update, Delete, AddLikeRecord, RemoveLikeRecord of the service:
\* mustExists, then the operation unless the gate said ErrNotFound
GatedCall(op, id) ==
    /\ phase = "serving"
    /\ \E failed \in BOOLEAN :
        LET answer == BloomExists(bloomBits, id, failed)
            verdict == mustExists(answer)
        IN /\ gate' = [op |-> op, id |-> id,
                       allBits |-> BloomOffsets[id] \subseteq bloomBits,
                       failed |-> failed, verdict |-> verdict,
                       proceeded |-> verdict = "pass",
                       inDb |-> id \in dbIds, duringStore |-> storing # 0]
           /\ dbIds' = IF verdict = "pass" /\ op = "Delete" THEN dbIds \ {id} ELSE dbIds
    /\ UNCHANGED <<viewVars, readVars, likeVars, bloomBits, bloomEver, bloomAdded,
                   lastId, seedVars, phase, storing>>

NextBloom ==
    \/ SeedFetch
    \/ SeedBulkAdd
    \/ SeedDone
    \/ StoreInsert
    \/ StoreBloomAdd
    \/ \E op \in GatedOps, id \in BloomIds : GatedCall(op, id)

SpecBloom == InitBloom /\ [][NextBloom]_vars

\* C8: every id whose Add or BulkAdd has succeeded is answered true by a
\* successful Exists in every later state, whatever else has been added, and
\* no offset that an operation has set is 0 again.
C8_AddedStayFound ==
    /\ \A id \in bloomAdded : BloomExists(bloomBits, id, FALSE).exists
    /\ bloomEver \subseteq bloomBits

C8_Witness ==
    \E a \in bloomAdded, b \in bloomAdded :
        /\ a # b
        /\ BloomOffsets[a] \cap BloomOffsets[b] # {}
        /\ Cardinality(bloomAdded) = MaxId
        /\ phase = "serving" /\ storing = 0

\* C9 as stated, for requests made while no Store is in progress: when the
\* gate of a serving process rejects an id, the durable store has no article
\* with that id.
C9_RejectedMeansAbsent ==
    (phase = "serving" /\ gate.verdict = "notfound" /\ ~gate.duringStore)
        => ~gate.inDb

\* C10: a gate whose Exists query failed lets the request proceed, as it
\* does for an id the filter holds; the gate answers ErrNotFound exactly
\* when the query succeeded and some bit of the id was 0, and only then
\* does the operation not run.
C10_FailsOpen ==
    gate.op # "none" =>
        /\ gate.failed => gate.verdict = "pass"
        /\ gate.verdict = "notfound" <=> (~gate.failed /\ ~gate.allBits)
        /\ gate.proceeded <=> gate.verdict = "pass"

C10_Witness ==
    /\ gate.op = "Delete"
    /\ gate.failed /\ ~gate.allBits
    /\ gate.verdict = "pass" /\ gate.proceeded
    /\ gate.inDb /\ gate.id \notin dbIds

\* C11: requests are served only after InitBloomFilter returned nil, and then
\* every id a FetchIDs page returned has been added to the filter (its
\* BulkAdd succeeded and its bits are set) and the pages covered every
\* article at or below the final cursor; after an error of FetchIDs or of a
\* BulkAdd no request is served.
C11_ServesOnlySeeded ==
    /\ phase = "serving" =>
          /\ ~seedErr /\ producerDone /\ idBatchChan = << >>
          /\ scanned \subseteq bloomAdded
          /\ BitsOf(scanned) \subseteq bloomBits
          /\ \A id \in dbIds : id <= seedCursor => id \in scanned
    /\ phase # "serving" => gate = NoGate /\ storing = 0

C11_Witness ==
    /\ phase = "serving"
    /\ Cardinality(scanned) = 2
    /\ seedCursor = 2
    /\ gate.op = "GetByID" /\ gate.verdict = "pass" /\ gate.id \in scanned
\* ------------------------------------------------------------------------
\* SpecWorker: syncLikesWorker alone: Send called with any task, the cases
\* of the select in Start, and the cancellation of its context
\* ------------------------------------------------------------------------
WorkerTasks ==
    {[aid |-> 5, uid |-> 1, action |-> Like],
     [aid |-> 5, uid |-> 1, action |-> Unlike],
     [aid |-> 5, uid |-> 2, action |-> Like]}

InitWorker ==
    /\ ViewsIdle
    /\ ReadIdle
    /\ BloomIdle
    /\ likeCnt = [a \in LikeArts |-> NoCount]
    /\ likedSet = << >>
    /\ hotRaw = << >>
    /\ likeQueue = << >>
    /\ batch = << >>
    /\ likeRows = {}
    /\ likesCol = [a \in LikeExisting |-> 0]
    /\ lk = NoLikeCall
    /\ hist = << >>
    /\ lastTx = NoTx
    /\ flushed = 0
    /\ lost = FALSE
    /\ lastFlush = NoFlush
    /\ SideIdle

\* syncLikesWorker.Send(likeRecord, action)
Send(t) ==
    /\ Len(sends) < MaxCalls
    /\ sends' = Append(sends, t)
    /\ likeQueue' = ChanSend(likeQueue, t)
    /\ lost' = (lost \/ ChanFull(likeQueue))
    /\ UNCHANGED <<bloomVars, viewVars, readVars, likedSet, hotRaw, batch, likeRows, likesCol,
                   lk, hist, lastTx, flushed, lastFlush, ctxDone, finalFlushes, lkc, auxVars>>

\* SIGINT or SIGTERM: signal.NotifyContext cancels the context of main
CtxCancel ==
    /\ ~ctxDone
    /\ ctxDone' = TRUE
    /\ UNCHANGED <<bloomVars, viewVars, readVars, likedSet, hotRaw, likeQueue, batch, likeRows,
                   likesCol, lk, hist, lastTx, flushed, lost, lastFlush, finalFlushes,
                   sends, lkc, auxVars>>

\* Start, case <-ctx.Done(): flush(batch); the case neither returns nor
\* resets the batch, and the for loop selects again
WorkerCtxDone ==
    /\ ctxDone
    /\ finalFlushes < MaxFinalFlushes
    /\ Flush(batch)
    /\ finalFlushes' = finalFlushes + 1
    /\ UNCHANGED <<bloomVars, viewVars, readVars, likedSet, hotRaw, likeQueue, batch, lk, hist,
                   ctxDone, sends, lkc, auxVars>>

NextWorker ==
    \/ \E t \in WorkerTasks : Send(t)
    \/ WorkerRecv
    \/ WorkerTick
    \/ CtxCancel
    \/ WorkerCtxDone

SpecWorker == InitWorker /\ [][NextWorker]_vars

\* C12 as stated: after its context is cancelled the worker flushes its
\* batch one final time and returns, so the ctx.Done() case runs at most
\* once.  Violated: the case has no return, Start loops and flushes again.
C12_SingleFinalFlush == finalFlushes <= 1

\* C13: a call of Send always completes in one step; with the channel full
\* the task is discarded and the channel is unchanged, otherwise the task is
\* appended at the tail; the worker only ever takes the task at the head and
\* puts it at the end of its batch.
C13_SendDropsOrAppends ==
    [][/\ sends' # sends =>
            /\ Len(sends') = Len(sends) + 1
            /\ IF Len(likeQueue) >= QueueCap
               THEN likeQueue' = likeQueue
               ELSE likeQueue' = Append(likeQueue, sends'[Len(sends')])
       /\ (sends' = sends /\ likeQueue' # likeQueue) =>
            /\ likeQueue # << >>
            /\ likeQueue' = Tail(likeQueue)
            /\ \/ batch' = Append(batch, Head(likeQueue))
               \/ batch' = << >> /\ lastFlush'.batch = Append(batch, Head(likeQueue))
       /\ Len(likeQueue') <= QueueCap]_vars

C13_Witness ==
    /\ Len(sends) = 3
    /\ sends[1] # sends[2] /\ sends[3] # sends[1] /\ sends[3] # sends[2]
    /\ likeQueue = <<sends[1], sends[2]>>
    /\ Len(likeQueue) = QueueCap
    /\ batch = << >> /\ flushed = 0
    /\ lost

\* C14: the changes flush hands to ApplyLikeChanges name every (article,
\* user) pair of the batch exactly once over both lists: in ToAdd when the
\* last task of the pair in the batch is a Like, in ToRemove when it is an
\* Unlike.
C14_LatestActionOnce ==
    LET b == lastFlush.batch
        all == lastFlush.ToAdd \o lastFlush.ToRemove
        pairs == {<<b[i].aid, b[i].uid>> : i \in 1..Len(b)}
    IN /\ SeqRange(all) = pairs
       /\ \A k \in pairs : Cardinality({i \in 1..Len(all) : all[i] = k}) = 1
       /\ SeqRange(lastFlush.ToAdd) \cap SeqRange(lastFlush.ToRemove) = {}
       /\ \A i \in 1..Len(b) :
             (\A j \in (i + 1)..Len(b) : <<b[j].aid, b[j].uid>> # <<b[i].aid, b[i].uid>>)
                => /\ b[i].action = Like
                        => <<b[i].aid, b[i].uid>> \in SeqRange(lastFlush.ToAdd)
                   /\ b[i].action = Unlike
                        => <<b[i].aid, b[i].uid>> \in SeqRange(lastFlush.ToRemove)

C14_Witness ==
    /\ Len(lastFlush.batch) = 2
    /\ lastFlush.batch[1] = [aid |-> 5, uid |-> 1, action |-> Like]
    /\ lastFlush.batch[2] = [aid |-> 5, uid |-> 1, action |-> Unlike]
    /\ lastFlush.ToAdd = << >>
    /\ lastFlush.ToRemove = << <<5, 1>> >>
\* no Send found the channel full: with at most QueueCap calls of Send the
\* channel never holds QueueCap tasks when one is made
NothingDropped == Len(sends) <= QueueCap

\* the worker holds no task: the channel and the batch are empty, so every
\* later flush hands ApplyLikeChanges an empty change set
Drained == likeQueue = << >> /\ batch = << >>

\* C27 as stated: the like actions of a batch whose ApplyLikeChanges failed
\* are applied by a later flush, so once the worker holds no task the
\* durable rows show, for every (article, user) pair sent, the last action
\* sent for it.  Violated: flush drops the error and Start replaces the
\* batch, so the tasks of a failed batch are gone.
C27_FailedBatchApplied ==
    (Drained /\ NothingDropped) =>
        \A k \in TaskKeys(sends) :
            (k \in likeRows) <=> (LastAction(sends, k) = Like)

\* C28 as stated: every task the worker dequeues is handed to exactly one
\* flush and then discarded: tasks leave the batch only through a flush that
\* was handed them, and a flush that was handed tasks leaves the batch
\* empty, so no later flush is handed the same tasks again.  Violated: the
\* ctx.Done() case flushes the batch and keeps it, and the loop flushes it
\* again.
C28_FlushedOnceThenDiscarded ==
    [][/\ (batch # << >> /\ batch' = << >>) =>
            /\ flushed' = flushed + 1
            /\ \E i \in 0..1 : SubSeq(lastFlush'.batch, 1, Len(lastFlush'.batch) - i) = batch
       /\ flushed' # flushed => batch' = << >>]_vars

\* ------------------------------------------------------------------------
\* SpecKeys: GetByID for several article ids over an empty cache, to see
\* which calls the single-flight group coalesces.  The ids are below 2^31,
\* where rune(id) keeps the value of id.
\* ------------------------------------------------------------------------
KeyIds == {1, 55296, 55297}

\* each article carries its own content version, so a result names its article
KeyVer(id) == IF id = 1 THEN 1 ELSE id - 55294

InitKeys ==
    /\ ViewsIdle
    /\ LikesIdle
    /\ BloomIdle
    /\ dbArt = [id \in KeyIds |-> KeyVer(id)]
    /\ cacheArt = [id \in KeyIds |-> NoEntry]
    /\ likeCnt = [id \in KeyIds |-> NoCount]
    /\ genCount = [id \in KeyIds |-> 0]
    /\ rebuildingMap = {}
    /\ rebuildGroup = << >>
    /\ pendingInval = [id \in KeyIds |-> 0]
    /\ rd = [r \in Readers |-> IdleCall]
    /\ bg = [r \in Readers |-> NoRebuild]

NextKeys ==
    \/ \E r \in Readers, id \in KeyIds : ReadCache(r, id)
    \/ \E r \in Readers : HitFinish(r)
    \/ \E r \in Readers : EnterDo(r)
    \/ \E r \in Readers : MissLoad(r)
    \/ \E r \in Readers : MissPopulate(r)
    \/ \E r \in Readers : MissSetLike(r)
    \/ \E r \in Readers : PostFinish(r)

SpecKeys == InitKeys /\ [][NextKeys]_vars

\* C15 as stated: a GetByID call only ever waits on a load for its own
\* article id, and the article it returns is the one it asked for.
\* Violated: string(rune(id)) is U+FFFD for every id in the surrogate range
\* or above 0x10FFFF, so such ids share one key.
C15_OwnArticleOnly ==
    \A r \in Readers :
        /\ rd[r].joined # 0 => rd[rd[r].joined].id = rd[r].id
        /\ (rd[r].pc = "done" /\ rd[r].res.status = "ok")
              => rd[r].res.ver = dbArt[rd[r].id]

\* ------------------------------------------------------------------------
\* SpecDup: NDup service.AddLikeRecord calls in flight at once, all for the
\* pair (DupArt, DupUser), which is liked neither in the cache nor in the
\* store; the user's liked-set is cached or not, the worker runs alongside.
\* The 1800 s of the liked-set do not pass during the calls.
\* ------------------------------------------------------------------------
DupCallers == 1..NDup
\* the likeRecord every caller passes, as the task Send gets for it
DupTask == [aid |-> 5, uid |-> 1, action |-> Like]
DupArt == DupTask.aid
DupUser == DupTask.uid

\* a call of user DupUser that has passed mustExists
DupCall(a, act) ==
    [pc |-> "script", aid |-> a, action |-> act, fetched |-> {}, hydrated |-> FALSE,
     res |-> "none"]

InitDup ==
    /\ ViewsIdle
    /\ ReadIdle
    /\ BloomIdle
    /\ likeRows \in SUBSET {<<6, DupUser>>, <<DupArt, 2>>}
    /\ likesCol = [a \in LikeExisting |-> 1]
    /\ likedSet \in {[u \in LikeUsers |-> NoSet],
                     [u \in LikeUsers |->
                        IF u = DupUser
                        THEN SetUserLikedArticles(NoSet,
                                 FetchUserLikedArticles(likeRows, u, LikeRecordLimit))
                        ELSE NoSet]}
    /\ likeCnt = [a \in LikeArts |->
                    IF a \in LikeExisting
                    THEN [present |-> TRUE, val |-> likesCol[a]]
                    ELSE NoCount]
    /\ hotRaw = [a \in LikeArts |-> 0]
    /\ likeQueue = << >>
    /\ batch = << >>
    /\ lk = NoLikeCall
    /\ hist = << >>
    /\ lastTx = NoTx
    /\ flushed = 0
    /\ lost = FALSE
    /\ lastFlush = NoFlush
    /\ ctxDone = FALSE
    /\ finalFlushes = 0
    /\ sends = << >>
    /\ lkc = [c \in DupCallers |-> DupCall(DupArt, Like)]
    /\ AuxIdle

DupTaskOf(c) == [aid |-> lkc[c].aid, uid |-> DupUser, action |-> lkc[c].action]

DupReturn(c, res) == lkc' = [lkc EXCEPT ![c].pc = "done", ![c].res = res]

\* articleCache.AddLikeRecord / DecrLikeRecord of caller c, first attempt or
\* the retry
DupScriptStep(c, retry) ==
    /\ lkc[c].pc = IF retry THEN "retry" ELSE "script"
    /\ \E ok \in BOOLEAN :
        LET a == lkc[c].aid
            r == RunLikeScript(lkc[c].action, likedSet[DupUser], likeCnt[a],
                               hotRaw[a], a)
        IN IF ~ok
           THEN /\ DupReturn(c, "error")
                /\ UNCHANGED <<likedSet, likeCnt, hotRaw>>
           ELSE /\ likedSet' = [likedSet EXCEPT ![DupUser] = r.set]
                /\ likeCnt' = [likeCnt EXCEPT ![a] = r.cnt]
                /\ hotRaw' = [hotRaw EXCEPT ![a] = r.hot]
                /\ IF r.res = 1 THEN lkc' = [lkc EXCEPT ![c].pc = "send"]
                   ELSE IF r.res = 0 THEN DupReturn(c, "false")
                   ELSE IF retry THEN DupReturn(c, "cachemiss")
                   ELSE lkc' = [lkc EXCEPT ![c].pc = "fetch"]
    /\ UNCHANGED <<bloomVars, viewVars, wkVars, auxVars, lastFlush, dbArt, cacheArt, genCount,
                   rebuildingMap, rebuildGroup, pendingInval, rd, bg, likeQueue, batch,
                   likeRows, likesCol, lk, hist, lastTx, flushed, lost>>

\* ErrCacheMiss: articleRepo.FetchUserLikedArticles(uid, LikeRecordLimit)
DupFetch(c) ==
    /\ lkc[c].pc = "fetch"
    /\ \E ok \in BOOLEAN :
        IF ok
        THEN lkc' = [lkc EXCEPT ![c].pc = "hydrate",
                                ![c].fetched = FetchUserLikedArticles(likeRows, DupUser,
                                                                      LikeRecordLimit)]
        ELSE DupReturn(c, "error")
    /\ UNCHANGED <<bloomVars, viewVars, wkVars, auxVars, lastFlush, readVars, likedSet, hotRaw,
                   likeQueue, batch, likeRows, likesCol, lk, hist, lastTx, flushed, lost>>

\* articleCache.SetUserLikedArticles(uid, likedArticles)
DupHydrate(c) ==
    /\ lkc[c].pc = "hydrate"
    /\ \E ok \in BOOLEAN :
        IF ok
        THEN /\ likedSet' = [likedSet EXCEPT ![DupUser] =
                                SetUserLikedArticles(likedSet[DupUser], lkc[c].fetched)]
             /\ lkc' = [lkc EXCEPT ![c].pc = "retry", ![c].hydrated = TRUE]
        ELSE DupReturn(c, "error") /\ UNCHANGED likedSet
    /\ UNCHANGED <<bloomVars, viewVars, wkVars, auxVars, lastFlush, readVars, hotRaw, likeQueue,
                   batch, likeRows, likesCol, lk, hist, lastTx, flushed, lost>>

\* if ok { syncLikesWorker.Send(likeRecord, action) }; return ok, nil
DupSend(c) ==
    /\ lkc[c].pc = "send"
    /\ sends' = Append(sends, DupTaskOf(c))
    /\ likeQueue' = ChanSend(likeQueue, DupTaskOf(c))
    /\ lost' = (lost \/ ChanFull(likeQueue))
    /\ DupReturn(c, "true")
    /\ UNCHANGED <<bloomVars, viewVars, readVars, likedSet, hotRaw, batch, likeRows,
                   likesCol, lk, hist, lastTx, flushed, lastFlush, ctxDone, finalFlushes,
                   auxVars>>

NextDup ==
    \/ \E c \in DupCallers : DupScriptStep(c, FALSE)
    \/ \E c \in DupCallers : DupFetch(c)
    \/ \E c \in DupCallers : DupHydrate(c)
    \/ \E c \in DupCallers : DupScriptStep(c, TRUE)
    \/ \E c \in DupCallers : DupSend(c)
    \/ WorkerRecv
    \/ WorkerTick

SpecDup == InitDup /\ [][NextDup]_vars

DupChanged == {c \in DupCallers : lkc[c].pc = "send" \/ lkc[c].res = "true"}

\* C20: of the concurrent AddLikeRecord calls for one pair that starts not
\* liked, at most one gets changed=true; the score of the article has been
\* raised once for that call and by nothing else; Send has been called once
\* for each call that returned true, with the Like task of the pair; and
\* once every call has returned without an error, exactly one of them has
\* returned true and all the others false.
C20_ExactlyOneLike ==
    /\ Cardinality(DupChanged) <= 1
    /\ hotRaw[DupArt] = Cardinality(DupChanged)
    /\ Len(sends) = Cardinality({c \in DupCallers : lkc[c].res = "true"})
    /\ \A i \in 1..Len(sends) : sends[i] = DupTask
    /\ (\A c \in DupCallers : lkc[c].pc = "done" /\ lkc[c].res # "error")
          => /\ Cardinality({c \in DupCallers : lkc[c].res = "true"}) = 1
             /\ \A c \in DupCallers : lkc[c].res \in {"true", "false"}

\* two calls both missed the liked-set and both hydrated it; one liked, the
\* other found the like of the first
C20_Witness ==
    \E a \in DupCallers, b \in DupCallers :
        /\ a # b
        /\ \A c \in DupCallers : lkc[c].pc = "done"
        /\ lkc[a].hydrated /\ lkc[b].hydrated
        /\ lkc[a].res = "true" /\ lkc[b].res = "false"
        /\ hotRaw[DupArt] = 1
        /\ sends = <<DupTask>>

\* ------------------------------------------------------------------------
\* SpecMiss: NDup like / unlike calls of one user in flight at once, for any
\* articles; the user's liked-set is not cached at the start and the store
\* holds any of the user's likes.  No key expires and none is evicted.
\* ------------------------------------------------------------------------
InitMiss ==
    /\ ViewsIdle
    /\ ReadIdle
    /\ BloomIdle
    /\ likeRows \in SUBSET {<<a, DupUser>> : a \in LikeArts}
    /\ likesCol = [a \in LikeExisting |-> 1]
    /\ likedSet = [u \in LikeUsers |-> NoSet]
    /\ likeCnt = [a \in LikeArts |-> NoCount]
    /\ hotRaw = [a \in LikeArts |-> 0]
    /\ likeQueue = << >>
    /\ batch = << >>
    /\ lk = NoLikeCall
    /\ hist = << >>
    /\ lastTx = NoTx
    /\ flushed = 0
    /\ lost = FALSE
    /\ lastFlush = NoFlush
    /\ ctxDone = FALSE
    /\ finalFlushes = 0
    /\ sends = << >>
    /\ lkc \in [DupCallers -> {DupCall(a, act) : a \in LikeArts, act \in {Like, Unlike}}]
    /\ AuxIdle

SpecMiss == InitMiss /\ [][NextDup]_vars

\* C21 as stated: no like / unlike call of the service returns ErrCacheMiss.
\* Violated: the retry after the reload returns whatever the script returns,
\* and the script answers -1 again when the key has gone in between, which
\* an SREM of the set's last member by a concurrent unlike brings about.
C21_NeverCacheMiss ==
    \A c \in DupCallers : lkc[c].res # "cachemiss"

\* ------------------------------------------------------------------------
\* SpecHome: articleRepository.Fetch calls in flight at once, the goroutines
\* they start, and the expiry of the home key
\* ------------------------------------------------------------------------
Cursors == {"", "c1"}

NoFetch == [pc |-> "idle", cursor |-> "", saw |-> "none", dbReads |-> 0, res |-> "none"]

InitHome ==
    /\ CoreIdle
    /\ StoreIdle
    /\ SeedGoIdle
    /\ PageIdle
    /\ RankIdle
    /\ DayIdle
    /\ FillIdle
    /\ homeCache \in {"absent", "fresh", "expired"}
    /\ homeCalls = [r \in Readers |-> NoFetch]
    /\ homeBg = [r \in Readers |-> "none"]
    /\ homeFlight = 0
    /\ homeSets = 0

\* Fetch, first page: cache.GetHomeWithLogicalExpire; a hit returns the
\* cached list (and starts rebuildHomeCache when it is logically expired);
\* any error, redis.Nil included, falls through to the store.  Other pages
\* go to the store directly.
FetchReadHome(r, cursor) ==
    /\ homeCalls[r].pc = "idle"
    /\ \E ok \in BOOLEAN :
        LET hit == cursor = "" /\ ok /\ homeCache # "absent"
            saw == IF cursor # "" THEN "skipped"
                   ELSE IF ~ok THEN "error" ELSE homeCache
        IN /\ homeCalls' = [homeCalls EXCEPT ![r] =
                              [@ EXCEPT !.pc = IF hit THEN "done" ELSE "query",
                                        !.cursor = cursor, !.saw = saw,
                                        !.res = IF hit THEN "cached" ELSE "none"]]
           /\ homeBg' = IF hit /\ homeCache = "expired"
                        THEN [homeBg EXCEPT ![r] = "spawned"] ELSE homeBg
    /\ UNCHANGED <<homeFrame, homeCache, homeFlight, homeSets>>

\* Fetch: r.db.Fetch(ctx, cursor, num)
FetchQuery(r) ==
    /\ homeCalls[r].pc = "query"
    /\ \E ok \in BOOLEAN :
        homeCalls' = [homeCalls EXCEPT ![r] =
                        [@ EXCEPT !.pc = IF ok THEN "fill" ELSE "done",
                                  !.dbReads = @ + 1,
                                  !.res = IF ok THEN "none" ELSE "error"]]
    /\ UNCHANGED <<homeFrame, homeCache, homeBg, homeFlight, homeSets>>

\* Fetch: fillUserDetails, then for the first page go SetHomeWithLogicalExpire
FetchFill(r) ==
    /\ homeCalls[r].pc = "fill"
    /\ \E ok \in BOOLEAN :
        /\ homeCalls' = [homeCalls EXCEPT ![r] =
                           [@ EXCEPT !.pc = "done", !.res = IF ok THEN "loaded" ELSE "error"]]
        /\ homeSets' = IF ok /\ homeCalls[r].cursor = "" THEN homeSets + 1 ELSE homeSets
    /\ UNCHANGED <<homeFrame, homeCache, homeBg, homeFlight>>

\* the goroutine of Fetch: SetHomeWithLogicalExpire, its error dropped
HomeSetAsync ==
    /\ homeSets > 0
    /\ homeSets' = homeSets - 1
    /\ \E ok \in BOOLEAN : homeCache' = IF ok THEN "fresh" ELSE homeCache
    /\ UNCHANGED <<homeFrame, homeCalls, homeBg, homeFlight>>

\* rebuildHomeCache: rebuildGroup.Do("home", fn) joins the call in flight
\* or executes fn
HomeRebuildStart(r) ==
    /\ homeBg[r] = "spawned"
    /\ IF homeFlight # 0
       THEN homeBg' = [homeBg EXCEPT ![r] = "wait"] /\ UNCHANGED homeFlight
       ELSE homeBg' = [homeBg EXCEPT ![r] = "load"] /\ homeFlight' = r
    /\ UNCHANGED <<homeFrame, homeCache, homeCalls, homeSets>>

\* fn of rebuildHomeCache: db.Fetch, fillUserDetails, SetHomeWithLogicalExpire;
\* when fn returns the key is forgotten and the waiting goroutines return
HomeRebuildRun(r) ==
    /\ homeBg[r] = "load"
    /\ \E loaded \in BOOLEAN, set \in BOOLEAN :
        homeCache' = IF loaded /\ set THEN "fresh" ELSE homeCache
    /\ homeBg' = [q \in Readers |-> IF q = r \/ homeBg[q] = "wait" THEN "done" ELSE homeBg[q]]
    /\ homeFlight' = 0
    /\ UNCHANGED <<homeFrame, homeCalls, homeSets>>

\* the logical lifetime (30 s) passes, or the 24 h of the key
ExpireHome ==
    /\ \/ homeCache = "fresh" /\ homeCache' = "expired"
       \/ homeCache = "expired" /\ homeCache' = "absent"
    /\ UNCHANGED <<homeFrame, homeCalls, homeBg, homeFlight, homeSets>>

NextHome ==
    \/ \E r \in Readers, cursor \in Cursors : FetchReadHome(r, cursor)
    \/ \E r \in Readers : FetchQuery(r)
    \/ \E r \in Readers : FetchFill(r)
    \/ HomeSetAsync
    \/ \E r \in Readers : HomeRebuildStart(r)
    \/ \E r \in Readers : HomeRebuildRun(r)
    \/ ExpireHome

SpecHome == InitHome /\ [][NextHome]_vars

\* C23 as stated: of the first-page Fetch calls that found the home listing
\* absent and are in flight together, at most one has run the listing query
\* of the store.
\* Violated: the miss path of Fetch calls r.db.Fetch directly; only
\* rebuildHomeCache, the refresh of an expired entry, goes through
\* rebuildGroup.Do.
C23_OneListingQuery ==
    \A a \in Readers, b \in Readers :
        (/\ a # b
         /\ homeCalls[a].pc = "fill" /\ homeCalls[b].pc = "fill"
         /\ homeCalls[a].cursor = "" /\ homeCalls[b].cursor = ""
         /\ homeCalls[a].saw = "absent" /\ homeCalls[b].saw = "absent")
            => homeCalls[a].dbReads + homeCalls[b].dbReads <= 1

\* ------------------------------------------------------------------------
\* SpecRank: articleRepository.GetHistoryRank calls in flight at once, the
\* goroutine buildHistoryRank starts, and the expiry of the rank keys
\* ------------------------------------------------------------------------
KeyHotHistoryRank == "article:hot:history:rank"

\* the key GetHistoryRank tests, the key SetHistoryRankWithLogicalExpire sets
HistoryReadKey == KeyHotHistoryRank
HistoryWriteKey == KeyHotHistoryRank \o "_logical"

\* the ids FetchArticlesByLikes may return: none when there is no article
RankLists == {<< >>, <<5>>, <<5, 6>>}

NoRankCall == [pc |-> "idle", n |-> 0, saw |-> "none", afterWrite |-> FALSE,
               dbReads |-> 0, res |-> "none"]

InitRank ==
    /\ CoreIdle
    /\ StoreIdle
    /\ SeedGoIdle
    /\ PageIdle
    /\ HomeIdle
    /\ DayIdle
    /\ FillIdle
    /\ rankRedis = {}
    /\ rankCalls = [r \in Readers |-> NoRankCall]
    /\ rankFlight = 0
    /\ rankSets = << >>
    /\ rankWritten = FALSE

\* GetHistoryRank, the n-th call of r: cache.GetHistoryRank answers from the key if EXISTS says
\* it is there (an error of EXISTS reads as 0) and with ErrCacheMiss if not;
\* on any error rankGroup.Do("history", fn) joins the call in flight or
\* executes fn
RankRead(r) ==
    /\ rankCalls[r].pc \in {"idle", "done"}
    /\ rankCalls[r].n < MaxCalls
    /\ \E ok \in BOOLEAN, fetched \in BOOLEAN :
        LET there == ok /\ HistoryReadKey \in rankRedis
            hit == there /\ fetched
            me == [NoRankCall EXCEPT !.n = rankCalls[r].n + 1,
                                     !.saw = IF there THEN "hit" ELSE "miss",
                                     !.afterWrite = rankWritten]
        IN IF hit
           THEN /\ rankCalls' = [rankCalls EXCEPT ![r] =
                                    [me EXCEPT !.pc = "done", !.res = "cached"]]
                /\ UNCHANGED rankFlight
           ELSE IF rankFlight # 0
           THEN /\ rankCalls' = [rankCalls EXCEPT ![r] = [me EXCEPT !.pc = "wait"]]
                /\ UNCHANGED rankFlight
           ELSE /\ rankCalls' = [rankCalls EXCEPT ![r] = [me EXCEPT !.pc = "build"]]
                /\ rankFlight' = r
    /\ UNCHANGED <<rankFrame, rankRedis, rankSets, rankWritten>>

\* buildHistoryRank: db.FetchArticlesByLikes, fillUserDetails, go
\* SetHistoryRankWithLogicalExpire(aids, scores, 1h); Do forgets the key and
\* hands the result to the callers waiting
RankBuild(r) ==
    /\ rankCalls[r].pc = "build"
    /\ \E ok \in BOOLEAN, aids \in RankLists :
        LET res == IF ok THEN "loaded" ELSE "error" IN
        /\ rankCalls' = [q \in Readers |->
                           IF q = r
                           THEN [rankCalls[q] EXCEPT !.pc = "done", !.dbReads = @ + 1,
                                                     !.res = res]
                           ELSE IF rankCalls[q].pc = "wait"
                           THEN [rankCalls[q] EXCEPT !.pc = "done", !.res = res]
                           ELSE rankCalls[q]]
        /\ rankSets' = IF ok THEN Append(rankSets, aids) ELSE rankSets
    /\ rankFlight' = 0
    /\ UNCHANGED <<rankFrame, rankRedis, rankWritten>>

\* the goroutine of buildHistoryRank: SetHistoryRankWithLogicalExpire refuses
\* an empty list, otherwise SETs the wrapper; its error is dropped
RankSetAsync ==
    /\ rankSets # << >>
    /\ rankSets' = Tail(rankSets)
    /\ \E ok \in BOOLEAN :
        LET done == ok /\ Head(rankSets) # << >> IN
        /\ rankRedis' = IF done THEN rankRedis \cup {HistoryWriteKey} ELSE rankRedis
        /\ rankWritten' = (rankWritten \/ done)
    /\ UNCHANGED <<rankFrame, rankCalls, rankFlight>>

\* the 24 h of a rank key pass
ExpireRank(k) ==
    /\ k \in rankRedis
    /\ rankRedis' = rankRedis \ {k}
    /\ rankWritten' = (rankWritten /\ k # HistoryWriteKey)
    /\ UNCHANGED <<rankFrame, rankCalls, rankFlight, rankSets>>

NextRank ==
    \/ \E r \in Readers : RankRead(r)
    \/ \E r \in Readers : RankBuild(r)
    \/ RankSetAsync
    \/ \E k \in {HistoryReadKey, HistoryWriteKey} : ExpireRank(k)

SpecRank == InitRank /\ [][NextRank]_vars

\* C24 as stated: a GetHistoryRank call made after a rebuilt rank has been
\* written to the cache, and while that entry lives, finds the rank in the
\* cache and runs no query itself.
\* Violated: the write goes to the key "article:hot:history:rank_logical",
\* the read tests the key "article:hot:history:rank", which nothing writes.
C24_ServedFromCache ==
    \A r \in Readers :
        rankCalls[r].afterWrite => rankCalls[r].saw = "hit" /\ rankCalls[r].dbReads = 0

\* ------------------------------------------------------------------------
\* SpecDaily: articleCache.GetDailyRank, the scoring of the like scripts on
\* the hourly buckets, and the passing of time.
\* A sorted set is a function from its members to their scores; the empty
\* one is the key that does not exist.
\* ------------------------------------------------------------------------
Hours == 0..(DayHours + 1)
RankLimits == {1, 2}

NoZSet == << >>
NoAgg == [scores |-> NoZSet, ttl |-> FALSE]

NoDailyCall == [pc |-> "idle", limit |-> 0, saw |-> "none", hourAt |-> 0,
                unions |-> 0, rawAt |-> << >>, built |-> NoZSet, aggAt |-> NoZSet,
                res |-> << >>,
                status |-> "none"]

\* ZINCRBY key delta member
ZIncrBy(z, a, d) ==
    [x \in DOMAIN z \cup {a} |->
        IF x = a THEN (IF a \in DOMAIN z THEN z[a] ELSE 0) + d ELSE z[x]]

\* the keys GetDailyRank hands to ZUNIONSTORE: now - i hours, i = 0..23
WindowKeys(now) == [i \in 1..DayHours |-> now - (i - 1)]

\* the bucket of an hour; an hour before the first one has no key
Bucket(raw, h) == IF h \in DOMAIN raw THEN raw[h] ELSE NoZSet

\* a variant that leaves out the oldest key of the window
RECURSIVE ZUnionNewest(_, _)
ZUnionNewest(raw, keys) ==
    IF Len(keys) <= 1 THEN NoZSet
    ELSE LET rest == ZUnionNewest(raw, Tail(keys))
             z == Bucket(raw, Head(keys))
         IN [a \in DOMAIN rest \cup DOMAIN z |->
                (IF a \in DOMAIN rest THEN rest[a] ELSE 0)
                    + (IF a \in DOMAIN z THEN z[a] ELSE 0)]

\* ZUNIONSTORE dest numkeys key... AGGREGATE SUM
RECURSIVE ZUnionSum(_, _)
ZUnionSum(raw, keys) ==
    IF keys = << >> THEN NoZSet
    ELSE LET rest == ZUnionSum(raw, Tail(keys))
             z == Bucket(raw, Head(keys))
         IN [a \in DOMAIN rest \cup DOMAIN z |->
                (IF a \in DOMAIN rest THEN rest[a] ELSE 0)
                    + (IF a \in DOMAIN z THEN z[a] ELSE 0)]

\* fetchRankFromKey: ZREVRANGE key 0 limit-1 WITHSCORES, as (ID, Likes)
\* entries; equal scores come in descending order of the member (the ids of
\* the model have one digit, where the order of the strings is that of the
\* numbers)
RECURSIVE ZRevRange(_, _)
ZRevRange(z, limit) ==
    IF DOMAIN z = {} \/ limit = 0 THEN << >>
    ELSE LET top == CHOOSE a \in DOMAIN z :
                        \A b \in DOMAIN z : z[b] < z[a] \/ (z[b] = z[a] /\ b <= a)
         IN <<[id |-> top, likes |-> z[top]]>>
                \o ZRevRange([b \in DOMAIN z \ {top} |-> z[b]], limit - 1)

InitDaily ==
    /\ CoreIdle
    /\ StoreIdle
    /\ SeedGoIdle
    /\ PageIdle
    /\ HomeIdle
    /\ RankIdle
    /\ FillIdle
    /\ hourRaw = [h \in Hours |-> NoZSet]
    /\ nowHour = 0
    /\ dailyAgg = NoAgg
    /\ dailyCall = NoDailyCall
    /\ dailyIncrs = 0

\* GetDailyRank: EXISTS on the aggregated key (an error reads as 0), and
\* time.Now() for the keys of the window
DailyExists(limit) ==
    /\ dailyCall.pc \in {"idle", "done"}
    /\ \E ok \in BOOLEAN :
        LET there == ok /\ DOMAIN dailyAgg.scores # {} IN
        dailyCall' = [NoDailyCall EXCEPT
                         !.pc = IF there THEN "fetch" ELSE "union",
                         !.limit = limit,
                         !.saw = IF ~ok THEN "error"
                                 ELSE IF there THEN "present" ELSE "absent",
                         !.hourAt = nowHour]
    /\ UNCHANGED <<dayFrame, hourRaw, nowHour, dailyAgg, dailyIncrs>>

\* GetDailyRank: ZUNIONSTORE of the window into the aggregated key, then
\* EXPIRE 5 minutes, whose error is dropped
DailyUnion ==
    /\ dailyCall.pc = "union"
    /\ \E ok \in BOOLEAN, okExpire \in BOOLEAN :
        IF ok
        THEN /\ dailyAgg' = [scores |-> ZUnionSum(hourRaw, WindowKeys(dailyCall.hourAt)),
                             ttl |-> okExpire]
             /\ dailyCall' = [dailyCall EXCEPT !.pc = "fetch", !.unions = @ + 1,
                                               !.rawAt = hourRaw,
                                               !.built = dailyAgg'.scores]
        ELSE /\ dailyCall' = [dailyCall EXCEPT !.pc = "done", !.status = "error"]
             /\ UNCHANGED dailyAgg
    /\ UNCHANGED <<dayFrame, hourRaw, nowHour, dailyIncrs>>

\* GetDailyRank: fetchRankFromKey(aggregated key, limit)
DailyFetch ==
    /\ dailyCall.pc = "fetch"
    /\ \E ok \in BOOLEAN :
        dailyCall' = IF ok
                     THEN [dailyCall EXCEPT !.pc = "done", !.status = "ok",
                                            !.aggAt = dailyAgg.scores,
                                            !.res = ZRevRange(dailyAgg.scores,
                                                              dailyCall.limit)]
                     ELSE [dailyCall EXCEPT !.pc = "done", !.status = "error"]
    /\ UNCHANGED <<dayFrame, hourRaw, nowHour, dailyAgg, dailyIncrs>>

\* the ZINCRBY of a like script (+1) or unlike script (-1) on the bucket of
\* the current hour
DailyIncr(a, d) ==
    /\ dailyIncrs < MaxScores
    /\ dailyIncrs' = dailyIncrs + 1
    /\ hourRaw' = [hourRaw EXCEPT ![nowHour] = ZIncrBy(@, a, d)]
    /\ UNCHANGED <<dayFrame, nowHour, dailyAgg, dailyCall>>

\* an hour passes, or the 5 minutes of the aggregated key
DailyTime ==
    /\ \/ /\ nowHour + 1 \in Hours
          /\ nowHour' = nowHour + 1
          /\ UNCHANGED dailyAgg
       \/ /\ dailyAgg.ttl
          /\ dailyAgg' = NoAgg
          /\ UNCHANGED nowHour
    /\ UNCHANGED <<dayFrame, hourRaw, dailyCall, dailyIncrs>>

NextDaily ==
    \/ \E limit \in RankLimits : DailyExists(limit)
    \/ DailyUnion
    \/ DailyFetch
    \/ \E a \in LikeArts, d \in {Like, Unlike} : DailyIncr(a, d)
    \/ DailyTime

SpecDaily == InitDaily /\ [][NextDaily]_vars

\* the sum of the scores of article a in the DayHours buckets that end at
\* hour h
RECURSIVE WindowSum(_, _, _, _)
WindowSum(raw, a, h, n) ==
    IF n = 0 THEN 0
    ELSE (IF h \in DOMAIN raw /\ a \in DOMAIN raw[h] THEN raw[h][a] ELSE 0)
            + WindowSum(raw, a, h - 1, n - 1)

Scored(raw, h) ==
    {a \in LikeArts : \E i \in 0..(DayHours - 1) :
                          (h - i) \in DOMAIN raw /\ a \in DOMAIN raw[h - i]}

\* C25: a GetDailyRank call that found the aggregated key absent has built
\* it from the buckets of the DayHours hours ending at the hour of the call:
\* it holds the articles scored in those buckets, each with the sum of its
\* scores, and it stays so until the call reads it unless its 5 minutes
\* pass; a call that found the key present has built nothing; and every
\* call that returns a list returns the first `limit` entries of the
\* aggregated set in descending order of score, each with its id and score.
C25_DailyRankIsWindowSum ==
    LET c == dailyCall IN
    /\ (c.unions > 0) =>
          /\ c.saw # "present"
          /\ c.unions = 1
          /\ DOMAIN c.built = Scored(c.rawAt, c.hourAt)
          /\ \A a \in DOMAIN c.built :
                c.built[a] = WindowSum(c.rawAt, a, c.hourAt, DayHours)
          /\ (c.pc = "fetch" /\ dailyAgg # NoAgg) => dailyAgg.scores = c.built
    /\ (c.saw = "present") => c.unions = 0
    /\ (c.status = "ok") =>
          /\ Len(c.res) = IF Cardinality(DOMAIN c.aggAt) < c.limit
                          THEN Cardinality(DOMAIN c.aggAt) ELSE c.limit
          /\ \A i \in 1..Len(c.res) :
                /\ c.res[i].id \in DOMAIN c.aggAt
                /\ c.res[i].likes = c.aggAt[c.res[i].id]
                /\ \A j \in (i + 1)..Len(c.res) :
                      c.res[j].likes <= c.res[i].likes /\ c.res[j].id # c.res[i].id
                /\ \A a \in DOMAIN c.aggAt :
                      (\A j \in 1..Len(c.res) : c.res[j].id # a)
                          => c.aggAt[a] <= c.res[i].likes

\* a call built the rank from two buckets that both score article 5 and
\* returned it with the sum
C25_Witness ==
    /\ dailyCall.status = "ok" /\ dailyCall.unions = 1 /\ dailyCall.saw = "absent"
    /\ dailyCall.hourAt >= 1
    /\ 5 \in DOMAIN dailyCall.rawAt[dailyCall.hourAt]
    /\ 5 \in DOMAIN dailyCall.rawAt[dailyCall.hourAt - 1]
    /\ dailyCall.res = <<[id |-> 5, likes |-> 2]>>

\* articleRepository.buildDailyRank: its body is commented out but for
\* panic("Unreachable: unimplement")
buildDailyRank == "panic"

\* articleRepository.GetDailyRank on what cache.GetDailyRank answered: the
\* filled rank list, or what rankGroup.Do("daily", buildDailyRank) gives;
\* Do panics in its caller when the function panics
RepoGetDailyRank(status) == IF status = "ok" THEN "rank" ELSE buildDailyRank

\* C36 as stated: repository GetDailyRank completes with a rank list or an
\* error value whatever cache.GetDailyRank answers, and never panics.
\* Violated: the build path taken on a cache error is the panic.
C36_RankOrError ==
    dailyCall.pc = "done" => RepoGetDailyRank(dailyCall.status) \in {"rank", "error"}

\* ------------------------------------------------------------------------
\* SpecFill: articleRepository.fillRankArticles applied to a rank list, over
\* the articles that are cached and stored.
\* A rank entry is (id, likes) with nothing else filled in; a hydrated
\* article carries its own like count.
\* ------------------------------------------------------------------------
FillIds == {5, 6}
FillScores == {0, 3}

RankEntry(id, score) == [id |-> id, likes |-> score, full |-> FALSE]
\* every cached or stored article has a like count of 1
FullArticle(id) == [id |-> id, likes |-> 1, full |-> TRUE]

\* the rank lists: entries with distinct ids
FillRanks ==
    {<< >>}
    \cup {<<RankEntry(a, x)>> : a \in FillIds, x \in FillScores}
    \cup {q \in {<<RankEntry(a, x), RankEntry(b, y)>> :
                     a \in FillIds, b \in FillIds, x \in FillScores, y \in FillScores} :
             q[1].id # q[2].id}

RECURSIVE AscendingSeq(_)
AscendingSeq(S) ==
    IF S = {} THEN << >>
    ELSE LET m == CHOOSE x \in S : \A y \in S : x <= y
         IN <<m>> \o AscendingSeq(S \ {m})

SeqMap(q, Op(_)) == [i \in 1..Len(q) |-> Op(q[i])]

\* articleRepository.GetByIDs: the cached articles when MGET finds a live
\* entry for every id; otherwise the rows of the store, an error when the
\* query fails or a row is missing (mysql GetByIDs: ErrNotFound)
GetByIDs(ids, in) ==
    LET hits == SelectSeq(ids, LAMBDA a : a \in in.cached)
        rows == AscendingSeq({a \in SeqRange(ids) : a \in in.stored})
    IN IF ids = << >> THEN [err |-> FALSE, arts |-> << >>]
       ELSE IF in.cacheOk /\ Len(hits) = Len(ids)
       THEN [err |-> FALSE, arts |-> SeqMap(hits, FullArticle)]
       ELSE IF ~in.dbOk \/ Len(rows) < Len(ids) THEN [err |-> TRUE, arts |-> << >>]
       ELSE [err |-> FALSE, arts |-> SeqMap(rows, FullArticle)]

\* a variant that keeps the like count of the hydrated article
FillKeepsOwnLikes(rank, got) ==
    IF rank = << >> \/ got.err THEN rank
    ELSE [i \in 1..Len(rank) |->
            IF \E j \in 1..Len(got.arts) : got.arts[j].id = rank[i].id
            THEN LET j == CHOOSE k \in 1..Len(got.arts) : got.arts[k].id = rank[i].id
                 IN got.arts[j]
            ELSE rank[i]]

\* fillRankArticles, given what GetByIDs returned: the rank list itself when
\* it is empty or GetByIDs failed; otherwise, in rank order, the article of
\* articleMap with Likes overwritten by the rank entry's, or the rank entry
FillRankArticles(rank, got) ==
    IF rank = << >> \/ got.err THEN rank
    ELSE [i \in 1..Len(rank) |->
            IF \E j \in 1..Len(got.arts) : got.arts[j].id = rank[i].id
            THEN LET j == CHOOSE k \in 1..Len(got.arts) :
                              /\ got.arts[k].id = rank[i].id
                              /\ \A l \in (k + 1)..Len(got.arts) :
                                    got.arts[l].id # rank[i].id
                 IN [got.arts[j] EXCEPT !.likes = rank[i].likes]
            ELSE rank[i]]

InitFill ==
    /\ CoreIdle
    /\ StoreIdle
    /\ SeedGoIdle
    /\ PageIdle
    /\ HomeIdle
    /\ RankIdle
    /\ DayIdle
    /\ fillIn \in {[rank |-> rk, stored |-> st, cached |-> ca, cacheOk |-> co, dbOk |-> do] :
                     rk \in FillRanks, st \in SUBSET FillIds, ca \in SUBSET FillIds,
                     co \in BOOLEAN, do \in BOOLEAN}
    /\ fillIn.cached \subseteq fillIn.stored
    /\ fillOut = [done |-> FALSE, err |-> FALSE, res |-> << >>]

\* fillRankArticles(ctx, rankArticles); its error result is always nil
FillCall ==
    /\ ~fillOut.done
    /\ fillOut' = [done |-> TRUE, err |-> FALSE,
                   res |-> FillRankArticles(fillIn.rank,
                               GetByIDs(SeqMap(fillIn.rank, LAMBDA e : e.id), fillIn))]
    /\ UNCHANGED <<fillFrame, fillIn>>

NextFill == FillCall

SpecFill == InitFill /\ [][NextFill]_vars

GateArts == ReadIds \cup LikeArts

GateOffsets == [id \in GateArts |-> {getOffset(id)[i] : i \in 1..3}]

\* the article rows are those of SpecRead and SpecLikes; the filter holds
\* any of the ids, so it may lack an article that is stored
InitGate ==
    /\ ViewsIdle
    /\ dbArt = [id \in ReadIds |-> 1]
    /\ cacheArt \in [ReadIds -> {NoEntry, FreshEntry(Article(1), 1)}]
    /\ likeCnt = [a \in GateArts |-> NoCount]
    /\ genCount = [id \in ReadIds |-> 1]
    /\ rebuildingMap = {}
    /\ rebuildGroup = << >>
    /\ pendingInval = [id \in ReadIds |-> 0]
    /\ rd = [r \in Readers |-> IdleCall]
    /\ bg = [r \in Readers |-> NoRebuild]
    /\ likeRows \in SUBSET {<<5, 2>>}
    /\ likesCol = [a \in LikeExisting |-> 1]
    /\ likedSet = [u \in LikeUsers |-> NoSet]
    /\ hotRaw = [a \in LikeArts |-> 0]
    /\ likeQueue = << >>
    /\ batch = << >>
    /\ lk = NoLikeCall
    /\ hist = << >>
    /\ lastTx = NoTx
    /\ flushed = 0
    /\ lost = FALSE
    /\ lastFlush = NoFlush
    /\ SideIdle
    /\ bloomBits \in {UNION {GateOffsets[id] : id \in S} : S \in SUBSET GateArts}
    /\ bloomEver = bloomBits
    /\ bloomAdded = {}
    /\ dbIds = ReadIds \cup LikeExisting
    /\ lastId = CHOOSE m \in dbIds : \A x \in dbIds : x <= m
    /\ seedCursor = 0
    /\ idBatchChan = << >>
    /\ producerDone = TRUE
    /\ scanned = {}
    /\ seedErr = FALSE
    /\ phase = "serving"
    /\ storing = 0
    /\ gate = NoGate

\* redisBloomRepo.Exists for any article id
GateExists(id, failed) ==
    [exists |-> ~failed /\ GateOffsets[id] \subseteq bloomBits, err |-> failed]

\* if err := a.mustExists(ctx, id); err != nil { return ... err }
ProceedsAnyway(verdict) == TRUE

Proceeds(verdict) == verdict = "pass"

GateDecision(op, id, failed, verdict) ==
    [op |-> op, id |-> id, allBits |-> GateOffsets[id] \subseteq bloomBits,
     failed |-> failed, verdict |-> verdict, proceeded |-> Proceeds(verdict),
     inDb |-> id \in dbIds, duringStore |-> FALSE]

gateFrame == <<bloomBits, bloomEver, bloomAdded, lastId, seedVars, phase, storing>>

\* service.GetByID: mustExists, then articleRepo.GetByID
ServiceGetByID(r, id) ==
    /\ phase = "serving"
    /\ \E failed \in BOOLEAN :
        LET verdict == mustExists(GateExists(id, failed)) IN
        /\ gate' = GateDecision("GetByID", id, failed, verdict)
        /\ IF Proceeds(verdict) THEN ReadCacheBody(r, id)
           ELSE UNCHANGED <<viewVars, readVars, likeVars>>
    /\ UNCHANGED <<gateFrame, dbIds>>

\* service.Update: mustExists, then articleRepo.Update
ServiceUpdate(id) ==
    /\ phase = "serving"
    /\ \E failed \in BOOLEAN :
        LET verdict == mustExists(GateExists(id, failed)) IN
        /\ gate' = GateDecision("Update", id, failed, verdict)
        /\ IF Proceeds(verdict) THEN RepoUpdateBody(id)
           ELSE UNCHANGED <<viewVars, readVars, likeVars>>
    /\ UNCHANGED <<gateFrame, dbIds>>

\* service.Delete: mustExists, then articleRepo.Delete
ServiceDelete(id) ==
    /\ phase = "serving"
    /\ \E failed \in BOOLEAN :
        LET verdict == mustExists(GateExists(id, failed)) IN
        /\ gate' = GateDecision("Delete", id, failed, verdict)
        /\ IF Proceeds(verdict)
           THEN RepoDeleteBody(id) /\ dbIds' = dbIds \ {id}
           ELSE UNCHANGED <<viewVars, readVars, likeVars, dbIds>>
    /\ UNCHANGED gateFrame

\* service.AddLikeRecord / RemoveLikeRecord: mustExists, then the script
ServiceLike(u, a, act) ==
    /\ phase = "serving"
    /\ \E failed \in BOOLEAN :
        LET verdict == mustExists(GateExists(a, failed)) IN
        /\ gate' = GateDecision(IF act = Like THEN "AddLikeRecord" ELSE "RemoveLikeRecord",
                                a, failed, verdict)
        /\ IF Proceeds(verdict) THEN StartLikeBody(u, a, act)
           ELSE UNCHANGED <<viewVars, readVars, likeVars>>
    /\ UNCHANGED <<gateFrame, dbIds>>

NextGate ==
    \/ \E r \in Readers, id \in ReadIds : ServiceGetByID(r, id)
    \/ \E id \in ReadIds : ServiceUpdate(id)
    \/ \E id \in ReadIds : ServiceDelete(id)
    \/ \E u \in LikeCallers, a \in LikeArts, act \in {Like, Unlike} : ServiceLike(u, a, act)

SpecGate == InitGate /\ [][NextGate]_vars

\* C29: when mustExists answers ErrNotFound for GetByID, Update, Delete,
\* AddLikeRecord or RemoveLikeRecord, the call returns it and nothing but
\* the record of the decision changes: no cache entry, view-buffer counter,
\* liked-set, score bucket, queue, call position or durable row, and the
\* filter itself is left as it was.
C29_RejectedTouchesNothing ==
    [][(gate' # gate /\ gate'.verdict = "notfound") =>
            /\ ~gate'.proceeded
            /\ UNCHANGED <<viewVars, readVars, likeVars, gateFrame, dbIds>>]_vars

\* Delete of the stored article 1 was rejected by a filter that lacks it,
\* after an Update of it had passed on a failed Exists: the row, its
\* version and the untouched cache entry are all still there
C29_Witness ==
    /\ gate.op = "Delete" /\ gate.id = 1
    /\ gate.verdict = "notfound" /\ ~gate.failed /\ ~gate.allBits
    /\ gate.inDb /\ 1 \in dbIds
    /\ dbArt[1] = 2 /\ pendingInval[1] = 1
    /\ cacheArt[1].present
    /\ lk.pc = "script"

\* ------------------------------------------------------------------------
\* SpecStore: service.Store called concurrently in a serving process: the
\* title lookup, the insert and the Add to the existence filter are three
\* separate calls, and the table article has no unique index on title
\* (model.Article: `gorm:"type:varchar(45);not null"`)
\* ------------------------------------------------------------------------
Storers == 1..NStorers

Titles == {"a", "b"}

StoreIds == 1..(NStorers + 1)

StoreOffsets == [id \in StoreIds |-> {getOffset(id)[i] : i \in 1..3}]

NoStoreCall == [pc |-> "idle", title |-> "", lookupOk |-> FALSE, id |-> 0, res |-> "none"]

\* what the actions of Store leave alone but for the rows and the filter
storeRest == <<viewVars, readVars, likedSet, hotRaw, likeQueue, batch, likeRows, likesCol,
               lk, hist, lastTx, flushed, lost, lastFlush, wkVars, lkc, homeVars, rankVars,
               dayVars, fillVars, seedGoVars, pageVars, seedVars, phase, storing,
               gate>>

\* the store holds no article or one titled "a", the filter holds its id
InitStore ==
    /\ ViewsIdle
    /\ ReadIdle
    /\ likeCnt = << >>
    /\ LikesIdleCore
    /\ HomeIdle
    /\ RankIdle
    /\ DayIdle
    /\ FillIdle
    /\ SeedGoIdle
    /\ PageIdle
    /\ artTitle \in {<< >>, <<"a">>}
    /\ dbIds = DOMAIN artTitle
    /\ lastId = Len(artTitle)
    /\ bloomBits = UNION {StoreOffsets[id] : id \in dbIds}
    /\ bloomEver = bloomBits
    /\ bloomAdded = {}
    /\ seedCursor = 0
    /\ idBatchChan = << >>
    /\ producerDone = TRUE
    /\ scanned = {}
    /\ seedErr = FALSE
    /\ phase = "serving"
    /\ storing = 0
    /\ gate = NoGate
    /\ stCalls = [c \in Storers |-> NoStoreCall]

\* mysql GetByTitle: First(&article, "title = ?", title), the row of the
\* lowest id; on any error the zero Article, whose ID is 0
GetByTitle(rows, title, ok) ==
    LET ids == {i \in DOMAIN rows : rows[i] = title} IN
    IF ok /\ ids # {} THEN CHOOSE i \in ids : \A j \in ids : i <= j ELSE 0

\* service.Store: existedArticle, _ := GetByTitle(m.Title); ErrConflict if
\* existedArticle.ID != 0
StoreLookup(c, t) ==
    /\ stCalls[c].pc = "idle"
    /\ \E ok \in BOOLEAN :
        LET existed == GetByTitle(artTitle, t, ok) IN
        stCalls' = [stCalls EXCEPT ![c] =
                       [pc |-> IF existed # 0 THEN "done" ELSE "create", title |-> t,
                        lookupOk |-> ok, id |-> 0,
                        res |-> IF existed # 0 THEN "conflict" ELSE "none"]]
    /\ UNCHANGED <<storeRest, bloomBits, bloomEver, bloomAdded, dbIds, lastId, artTitle>>

\* service.Store: articleRepo.Store, Create(&articleModel) assigns the id
StoreCreate(c) ==
    /\ stCalls[c].pc = "create"
    /\ \E ok \in BOOLEAN :
        IF ok
        THEN /\ artTitle' = Append(artTitle, stCalls[c].title)
             /\ lastId' = lastId + 1
             /\ dbIds' = dbIds \cup {lastId + 1}
             /\ stCalls' = [stCalls EXCEPT ![c].pc = "add", ![c].id = lastId + 1]
        ELSE /\ stCalls' = [stCalls EXCEPT ![c].pc = "done", ![c].res = "error"]
             /\ UNCHANGED <<artTitle, lastId, dbIds>>
    /\ UNCHANGED <<storeRest, bloomBits, bloomEver, bloomAdded>>

\* service.Store: a.bloomRepo.Add(ctx, m.ID), its error not looked at
StoreAdd(c) ==
    /\ stCalls[c].pc = "add"
    /\ \E ok \in BOOLEAN, part \in SUBSET StoreOffsets[stCalls[c].id] :
        /\ ok => part = StoreOffsets[stCalls[c].id]
        /\ bloomBits' = SetBits(bloomBits, part)
        /\ bloomEver' = bloomEver \cup part
        /\ bloomAdded' = IF ok THEN bloomAdded \cup {stCalls[c].id} ELSE bloomAdded
    /\ stCalls' = [stCalls EXCEPT ![c].pc = "done", ![c].res = "ok"]
    /\ UNCHANGED <<storeRest, dbIds, lastId, artTitle>>

NextStore ==
    \/ \E c \in Storers, t \in Titles : StoreLookup(c, t)
    \/ \E c \in Storers : StoreCreate(c)
    \/ \E c \in Storers : StoreAdd(c)

SpecStore == InitStore /\ [][NextStore]_vars

\* C30 as stated: Store of a title that an article of the durable store has
\* returns Conflict and creates nothing, so whatever Store calls run
\* concurrently, and none of their title lookups failing, no two articles of
\* the durable store have the same title.  Violated: two calls both look
\* the title up before either inserts.
C30_NoDuplicateTitle ==
    (\A c \in Storers : stCalls[c].pc = "idle" \/ stCalls[c].lookupOk) =>
        \A i, j \in DOMAIN artTitle : i # j => artTitle[i] # artTitle[j]

\* every like / unlike call has returned, the worker holds nothing, no task
\* was dropped and no transaction failed
DupSettled ==
    /\ \A c \in DupCallers : lkc[c].pc = "done"
    /\ likeQueue = << >> /\ batch = << >>
    /\ ~lost

\* C32 as stated: once no request is in progress, the queue is empty and
\* the worker has flushed with nothing dropped, an existing article is in a
\* cached liked-set exactly if the store has the like row.  Violated: two
\* requests for one pair run their scripts in one order and their Sends in
\* the other, and the flush applies the action sent last.
C32_CacheAgreesWithStore ==
    DupSettled =>
        \A u \in LikeUsers, a \in LikeExisting :
            likedSet[u].present => ((a \in likedSet[u].members) <=> (<<a, u>> \in likeRows))

\* ------------------------------------------------------------------------
\* SpecCount: the calls of SpecMiss when the like counters of the existing
\* articles are cache-resident and equal to the likes column, which equals
\* the number of like rows.  No key expires and none is evicted.
\* ------------------------------------------------------------------------
InitCount ==
    /\ ViewsIdle
    /\ ReadIdle
    /\ BloomIdle
    /\ likeRows \in SUBSET {<<a, u>> : a \in LikeExisting, u \in LikeUsers}
    /\ likesCol = [a \in LikeExisting |-> RealCount(likeRows, a)]
    /\ likedSet = [u \in LikeUsers |-> NoSet]
    /\ likeCnt = [a \in LikeArts |->
                    IF a \in LikeExisting
                    THEN [present |-> TRUE, val |-> likesCol[a]]
                    ELSE NoCount]
    /\ hotRaw = [a \in LikeArts |-> 0]
    /\ likeQueue = << >>
    /\ batch = << >>
    /\ lk = NoLikeCall
    /\ hist = << >>
    /\ lastTx = NoTx
    /\ flushed = 0
    /\ lost = FALSE
    /\ lastFlush = NoFlush
    /\ ctxDone = FALSE
    /\ finalFlushes = 0
    /\ sends = << >>
    /\ lkc \in [DupCallers -> {DupCall(a, act) : a \in LikeArts, act \in {Like, Unlike}}]
    /\ AuxIdle

SpecCount == InitCount /\ [][NextDup]_vars

\* C33 as stated: once every queued like action has been flushed with
\* success and no request is in progress, the like count GetByID reads from
\* a cache-resident counter of an article equals the number of its like
\* rows.  Violated: the scripts move the counter once per changed=true in
\* the order they ran, the store applies the action sent last, and nothing
\* writes the counter again while the article stays cached.
C33_CounterMatchesRows ==
    DupSettled =>
        \A a \in LikeExisting :
            likeCnt[a].present => GetLikeCount(a, TRUE, 0) = RealCount(likeRows, a)

\* ------------------------------------------------------------------------
\* SpecSeen: the GetByID calls of SpecRead while the views worker drains
\* the view buffer.  The views column of the store is not modelled: a cached
\* entry keeps the views it was written with, which is all a cache hit reads.
\* ------------------------------------------------------------------------
\* as InitRead, with the view buffer empty or holding one earlier view of
\* the article
InitSeen ==
    /\ viewsBuffer \in {EmptyHash} \cup {HIncrBy(EmptyHash, FormatInt(id), 1) : id \in ReadIds}
    /\ viewsProcessing = EmptyHash
    /\ incrDone = [id \in ViewIds |-> 0]
    /\ drainedSum = [id \in ViewIds |-> 0]
    /\ drainCycles = 0
    /\ lastOp = "none"
    /\ LikesIdle
    /\ BloomIdle
    /\ dbArt = [id \in ReadIds |-> 1]
    /\ cacheArt \in [ReadIds -> {NoEntry, FreshEntry(Article(1), 1),
                                 [FreshEntry(Article(1), 1) EXCEPT !.expired = TRUE]}]
    /\ likeCnt = [id \in ReadIds |-> NoCount]
    /\ genCount = [id \in ReadIds |-> 1]
    /\ rebuildingMap = {}
    /\ rebuildGroup = << >>
    /\ pendingInval = [id \in ReadIds |-> 0]
    /\ rd = [r \in Readers |-> IdleCall]
    /\ bg = [r \in Readers |-> NoRebuild]

NextSeen ==
    \/ NextRead
    \/ FetchAndResetViews

SpecSeen == InitSeen /\ [][NextSeen]_vars

\* C34 as stated, for two cache hits on the same cache entry: when a
\* successful GetByID(id) returns, its view count is not below that of any
\* successful GetByID(id) that had returned before it started.
\* Violated: a hit returns the views of the cached entry plus the buffer
\* counter, and a drain in between takes the counter back to nothing.
C34_ViewsNeverDecrease ==
    [][\A q \in Readers, r \in Readers :
          (/\ rd[q].pc # "done" /\ rd'[q].pc = "done" /\ rd'[q].res.status = "ok"
           /\ rd[r].pc = "done" /\ rd[r].res.status = "ok"
           /\ rd[r].id = rd[q].id
           /\ r \notin rd[q].overlap /\ q \notin rd[r].overlap
           /\ rd[q].saw \in {"fresh", "expired"} /\ rd[r].saw \in {"fresh", "expired"}
           /\ rd[q].sawGen = rd[r].sawGen)
             => rd'[q].res.views >= rd[r].res.views]_vars

\* ------------------------------------------------------------------
\* SpecSeed: InitBloomFilter goroutine by goroutine. One producer pages
\* the ids into the buffered idBatchChan, WorkerCount writers range over
\* it, the errgroup cancels ctx on the first error and g.Wait() returns
\* when all of them have returned.
\* ------------------------------------------------------------------
Writers == 1..WorkerCount

\* enough rows for every writer to fail on a batch of its own, the channel
\* to fill up after that and one more page to be held at the select
SeedRows == 1..(WorkerCount + ChanCap + 1)

SeedOffsets == [id \in SeedRows |-> {getOffset(id)[i] : i \in 1..3}]

ProducerAt(pc, page, via, failed) ==
    [pc |-> pc, page |-> page, via |-> via, failed |-> failed]

WriterAt(pc, failed) == [pc |-> pc, failed |-> failed]

InitSeed ==
    /\ ViewsIdle
    /\ ReadIdle
    /\ likeCnt = [id \in ReadIds |-> NoCount]
    /\ LikesIdleCore
    /\ HomeIdle
    /\ RankIdle
    /\ DayIdle
    /\ FillIdle
    /\ StoreIdle
    /\ PageIdle
    /\ dbIds \in SUBSET SeedRows
    /\ lastId = WorkerCount + ChanCap + 1
    /\ bloomBits = {}
    /\ bloomEver = {}
    /\ bloomAdded = {}
    /\ seedCursor = 0
    /\ idBatchChan = << >>
    /\ producerDone = FALSE
    /\ scanned = {}
    /\ seedErr = FALSE
    /\ phase = "seeding"
    /\ storing = 0
    /\ gate = NoGate
    /\ seedProd = ProducerAt("fetch", << >>, "none", FALSE)
    /\ seedWr = [w \in Writers |-> WriterAt("range", FALSE)]

seedRest == <<viewVars, readVars, likedSet, likeCnt, hotRaw, likeQueue, batch, likeRows,
              likesCol, lk, hist, lastTx, flushed, lost, lastFlush, wkVars, lkc, homeVars,
              rankVars, dayVars, fillVars, storeVars, pageVars, dbIds, lastId, storing,
              gate>>

\* the producer's loop head: FetchIDs(ctx, cursor, BatchSize); an error
\* returns it (the errgroup records it and cancels ctx), an empty page
\* breaks and returns nil, the deferred close(idBatchChan) runs in either
\* case; a page takes the producer to the select
ProducerFetch ==
    /\ phase = "seeding" /\ seedProd.pc = "fetch"
    /\ \E ok \in BOOLEAN :
        LET ids == FetchIDs(dbIds, seedCursor, BatchSize) IN
        IF ~ok
        THEN /\ seedProd' = ProducerAt("done", << >>, "error", TRUE)
             /\ seedErr' = TRUE
             /\ producerDone' = TRUE
        ELSE IF Len(ids) = 0
        THEN /\ seedProd' = ProducerAt("done", << >>, "empty", FALSE)
             /\ producerDone' = TRUE
             /\ UNCHANGED seedErr
        ELSE /\ seedProd' = ProducerAt("select", ids, "none", FALSE)
             /\ UNCHANGED <<seedErr, producerDone>>
    /\ UNCHANGED <<seedRest, bloomBits, bloomEver, bloomAdded, seedCursor, idBatchChan,
                   scanned, phase, seedWr>>

\* select, case idBatchChan <- ids: ready while the buffer has room
ProducerSend ==
    /\ phase = "seeding" /\ seedProd.pc = "select"
    /\ Len(idBatchChan) < ChanCap
    /\ idBatchChan' = Append(idBatchChan, seedProd.page)
    /\ seedCursor' = seedProd.page[Len(seedProd.page)]
    /\ scanned' = scanned \cup SeqRange(seedProd.page)
    /\ seedProd' = ProducerAt("fetch", << >>, "none", FALSE)
    /\ UNCHANGED <<seedRest, bloomBits, bloomEver, bloomAdded, producerDone, seedErr,
                   phase, seedWr>>

\* the context of errgroup.WithContext is done once the group has an error
NeverDone(err) == FALSE

CtxDone(err) == err

\* select, case <-ctx.Done(): the producer returns ctx.Err() and closes
ProducerCtxDone ==
    /\ phase = "seeding" /\ seedProd.pc = "select"
    /\ CtxDone(seedErr)
    /\ seedProd' = ProducerAt("done", seedProd.page, "ctx", FALSE)
    /\ producerDone' = TRUE
    /\ UNCHANGED <<seedRest, bloomBits, bloomEver, bloomAdded, seedCursor, idBatchChan,
                   scanned, seedErr, phase, seedWr>>

\* a writer receives a batch (a closed channel still hands out what is
\* buffered) and BulkAdds it; an error returns the writer with it
WriterBulkAdd(w) ==
    /\ phase = "seeding" /\ seedWr[w].pc = "range"
    /\ idBatchChan # << >>
    /\ LET ids == SeqRange(Head(idBatchChan))
           bits == UNION {SeedOffsets[id] : id \in ids} IN
       \E ok \in BOOLEAN, part \in SUBSET bits :
        /\ ok => part = bits
        /\ bloomBits' = SetBits(bloomBits, part)
        /\ bloomEver' = bloomEver \cup part
        /\ bloomAdded' = IF ok THEN bloomAdded \cup ids ELSE bloomAdded
        /\ seedErr' = (seedErr \/ ~ok)
        /\ seedWr' = [seedWr EXCEPT ![w] = IF ok THEN @ ELSE WriterAt("done", TRUE)]
    /\ idBatchChan' = Tail(idBatchChan)
    /\ UNCHANGED <<seedRest, seedCursor, producerDone, scanned, phase, seedProd>>

\* the range loop of a writer ends on the closed and drained channel
WriterEnd(w) ==
    /\ phase = "seeding" /\ seedWr[w].pc = "range"
    /\ idBatchChan = << >> /\ producerDone
    /\ seedWr' = [seedWr EXCEPT ![w] = WriterAt("done", FALSE)]
    /\ UNCHANGED <<seedRest, bloomBits, bloomEver, bloomAdded, seedVars, phase, seedProd>>

\* g.Wait() returns the first error once every goroutine has returned
SeedWait ==
    /\ phase = "seeding"
    /\ seedProd.pc = "done"
    /\ \A w \in Writers : seedWr[w].pc = "done"
    /\ phase' = StartupOutcome(seedErr)
    /\ UNCHANGED <<seedRest, bloomBits, bloomEver, bloomAdded, seedVars, seedGoVars>>

ProducerStep == ProducerFetch \/ ProducerSend \/ ProducerCtxDone

WriterStep(w) == WriterBulkAdd(w) \/ WriterEnd(w)

NextSeed ==
    \/ ProducerFetch
    \/ ProducerSend
    \/ ProducerCtxDone
    \/ \E w \in Writers : WriterBulkAdd(w)
    \/ \E w \in Writers : WriterEnd(w)
    \/ SeedWait

SpecSeed == InitSeed /\ [][NextSeed]_vars

\* every goroutine is scheduled: a goroutine that can take a step of its
\* own code does so in the end
SpecSeedFair ==
    /\ SpecSeed
    /\ WF_vars(ProducerStep)
    /\ \A w \in Writers : WF_vars(WriterStep(w))
    /\ WF_vars(SeedWait)

SomeCallFailed == seedProd.failed \/ \E w \in Writers : seedWr[w].failed

SeedReturned ==
    /\ phase # "seeding"
    /\ seedProd.pc = "done"
    /\ \A w \in Writers : seedWr[w].pc = "done"
    /\ phase = "failed" <=> SomeCallFailed

\* C38: whatever FetchIDs and BulkAdd return, the producer and every writer
\* return and InitBloomFilter returns, with an error exactly when one of
\* the calls failed
C38_SeedingReturns == <>SeedReturned

\* every writer failed on a batch, the buffer filled up behind them and the
\* producer left the select over ctx.Done() with a page in its hand
C38_Witness ==
    /\ phase = "failed"
    /\ \A w \in Writers : seedWr[w].failed
    /\ Len(idBatchChan) = ChanCap
    /\ seedProd.via = "ctx" /\ seedProd.page # << >>

\* ------------------------------------------------------------------
\* SpecPage: a client pages through the listing with service.Fetch, taking
\* each cursor from the page before; the home key and the goroutines that
\* write it are part of it. The article table does not change meanwhile.
\* ------------------------------------------------------------------
PageIds == 1..PageRows

Stamps == 1..MaxStamp

Nums == 1..MaxNum

\* created_at is set at the insert, so it does not decrease with the id
RowTables == {t \in [PageIds -> Stamps] :
                \A a \in PageIds, b \in PageIds : a < b => t[a] <= t[b]}

\* the sequences that hold every element of S once
RECURSIVE EnumSeqs(_)
EnumSeqs(S) ==
    IF S = {} THEN {<< >>}
    ELSE UNION {{<<x>> \o s : s \in EnumSeqs(S \ {x})} : x \in S}

\* encodeCursor: the timestamp as RFC3339Nano text
encodeCursor(t) == <<"RFC3339Nano", t>>

\* DecodeCursor: the timestamp the text stands for, the zero time for ""
DecodeCursor(cursor) == IF cursor = "" THEN 0 ELSE cursor[2]

Prefix(s, n) == SubSeq(s, 1, IF Len(s) < n THEN Len(s) ELSE n)

\* mysql Fetch: WHERE created_at > cursor ORDER BY created_at LIMIT num;
\* the order among equal created_at is whatever the server produces
MysqlFetch(rows, cursor, num) ==
    LET after == {i \in DOMAIN rows : rows[i] > DecodeCursor(cursor)}
        ordered == {s \in EnumSeqs(after) :
                      \A i \in 1..Len(s), j \in 1..Len(s) :
                          i < j => rows[s[i]] <= rows[s[j]]}
    IN {Prefix(s, num) : s \in ordered}

\* service.Fetch: the cursor handed out with a page
NextCursor(rows, page) ==
    IF Len(page) = 0 THEN "" ELSE encodeCursor(rows[page[Len(page)]])

NoHome == [state |-> "absent", list |-> << >>]

NoWalk == [pc |-> "idle", n |-> 0, num |-> 0, cursor |-> "", page |-> << >>,
           got |-> << >>, res |-> "none", cached |-> FALSE]

InitPage ==
    /\ CoreIdle
    /\ HomeIdle
    /\ RankIdle
    /\ DayIdle
    /\ FillIdle
    /\ StoreIdle
    /\ SeedGoIdle
    /\ pgRows \in RowTables
    /\ pgHome = NoHome
    /\ pgBg = {}
    /\ pgWalk = NoWalk

pageFrame == <<coreVars, homeVars, rankVars, dayVars, fillVars, storeVars, seedGoVars>>

\* a client asks for the first page
PageStart(num) ==
    /\ pgWalk.pc \in {"idle", "done"}
    /\ pgWalk.n < MaxWalks
    /\ pgWalk' = [NoWalk EXCEPT !.pc = "fetch", !.n = pgWalk.n + 1, !.num = num]
    /\ UNCHANGED <<pageFrame, pgRows, pgHome, pgBg>>

\* the walk after one more page: an empty page carries no cursor and ends it
Walked(page, cached) ==
    [pgWalk EXCEPT !.pc = IF Len(page) = 0 THEN "done" ELSE "fetch",
                   !.cursor = NextCursor(pgRows, page),
                   !.page = page,
                   !.got = @ \o page,
                   !.res = IF Len(page) = 0 THEN "end" ELSE "page",
                   !.cached = @ \/ cached]

\* service.Fetch over articleRepository.Fetch: the first page comes from the
\* home key when it can be read (an expired one starts rebuildHomeCache);
\* otherwise the store is queried, the users are filled in, and a first
\* page is handed to a goroutine that writes the home key
RepoFetch ==
    /\ pgWalk.pc = "fetch"
    /\ \E cacheOk \in BOOLEAN, dbOk \in BOOLEAN, fillOk \in BOOLEAN :
        IF pgWalk.cursor = "" /\ cacheOk /\ pgHome.state # "absent"
        THEN /\ pgWalk' = Walked(pgHome.list, TRUE)
             /\ pgBg' = IF pgHome.state = "expired"
                        THEN pgBg \cup {[kind |-> "rebuild", num |-> pgWalk.num,
                                         list |-> << >>]}
                        ELSE pgBg
        ELSE IF ~dbOk \/ ~fillOk
        THEN /\ pgWalk' = [pgWalk EXCEPT !.pc = "done", !.res = "error"]
             /\ UNCHANGED pgBg
        ELSE \E page \in MysqlFetch(pgRows, pgWalk.cursor, pgWalk.num) :
             /\ pgWalk' = Walked(page, FALSE)
             /\ pgBg' = IF pgWalk.cursor = ""
                        THEN pgBg \cup {[kind |-> "set", num |-> 0, list |-> page]}
                        ELSE pgBg
    /\ UNCHANGED <<pageFrame, pgRows, pgHome>>

\* the goroutine of Fetch: SetHomeWithLogicalExpire(data), its error dropped
PageSetHome ==
    /\ \E g \in pgBg :
        /\ g.kind = "set"
        /\ pgBg' = pgBg \ {g}
        /\ \E ok \in BOOLEAN :
            pgHome' = IF ok THEN [state |-> "fresh", list |-> g.list] ELSE pgHome
    /\ UNCHANGED <<pageFrame, pgRows, pgWalk>>

\* rebuildHomeCache(num): db.Fetch("", num), fillUserDetails and
\* SetHomeWithLogicalExpire; an error of any of them leaves the key alone
PageRebuildHome ==
    /\ \E g \in pgBg :
        /\ g.kind = "rebuild"
        /\ pgBg' = pgBg \ {g}
        /\ \E ok \in BOOLEAN, page \in MysqlFetch(pgRows, "", g.num) :
            pgHome' = IF ok THEN [state |-> "fresh", list |-> page] ELSE pgHome
    /\ UNCHANGED <<pageFrame, pgRows, pgWalk>>

\* the 30 s of the logical lifetime pass, or the 24 h of the key
PageExpireHome ==
    /\ \/ pgHome.state = "fresh" /\ pgHome' = [pgHome EXCEPT !.state = "expired"]
       \/ pgHome.state = "expired" /\ pgHome' = NoHome
    /\ UNCHANGED <<pageFrame, pgRows, pgBg, pgWalk>>

NextPage ==
    \/ \E num \in Nums : PageStart(num)
    \/ RepoFetch
    \/ PageSetHome
    \/ PageRebuildHome
    \/ PageExpireHome

SpecPage == InitPage /\ [][NextPage]_vars

\* C39 as stated: a walk that followed the cursors to the empty page has
\* returned every article of the store exactly once, in creation order.
\* Violated: the next page is WHERE created_at > cursor, so the articles
\* that share the created_at of a page's last article and did not fit on
\* that page are never returned.
C39_WalkReturnsEveryArticleOnce ==
    pgWalk.res = "end"
        => /\ SeqRange(pgWalk.got) = PageIds
           /\ Len(pgWalk.got) = PageRows
           /\ \A i \in 1..Len(pgWalk.got), j \in 1..Len(pgWalk.got) :
                 i < j => pgRows[pgWalk.got[i]] <= pgRows[pgWalk.got[j]]

\* C40 as stated: no page is longer than the num of the request.
\* Violated: a first page read from the home key is returned as cached,
\* whatever num the request that filled the key had.
C40_AtMostNum ==
    pgWalk.res = "page" => Len(pgWalk.page) <= pgWalk.num
====
